---------------------------- MODULE Spec2Model ----------------------------
(***************************************************************************)
(* A model of the fork-replay and voting core: the replay loop of          *)
(* core/src/replay_stage.rs with the ProgressMap of                        *)
(* core/src/progress_map.rs, and the entry processor of                    *)
(* ledger/src/blockstore_processor.rs.                                     *)
(*                                                                         *)
(* The replay loop is one thread; each stage of its loop body is one       *)
(* action, taken in the order of the source (pc names the next stage).     *)
(* Collaborators whose code lies outside the modelled files (BankForks,    *)
(* Tower, HeaviestSubtreeForkChoice, the block store, the cluster-state    *)
(* verifier) are modelled by their contract; what they return from data    *)
(* the loop does not own (votes seen, entries received, stakes) is drawn   *)
(* from small sets.                                                        *)
(***************************************************************************)
EXTENDS Integers, FiniteSets, Sequences, TLC

(***************************************************************************)
(* Bounds of the model.                                                    *)
(***************************************************************************)
\* Slots are 0..MaxSlot.
MaxSlot == 3
\* The Tower's vote stack holds at most TowerDepth votes; one more vote pops
\* the oldest as the new root (MAX_LOCKOUT_HISTORY of the vote program,
\* scaled down).
TowerDepth == 1
\* Most child banks the block store hands to one generate_new_bank_forks call.
MaxNewBanks == 1
\* A second version of the block exists for the slots 1..MaxDuplicate.
MaxDuplicate == 1

\* Option<Slot>::None, Option<Hash>::None and Hash::default().
NoSlot == -1
NoHash == -1
DefaultHash == 0

Slots == 0..MaxSlot

(***************************************************************************)
(* Validators.  "me" is this node (identity and vote account are named     *)
(* alike); every node identity owns exactly one vote account.              *)
(***************************************************************************)
Validators == {"me", "v1", "v2"}

epoch_vote_account_stake(v) ==
  CASE v = "me" -> 1
    [] v = "v1" -> 1
    [] OTHER    -> 4

RECURSIVE SumStake(_)
SumStake(S) ==
  IF S = {} THEN 0
  ELSE LET v == CHOOSE x \in S : TRUE
       IN epoch_vote_account_stake(v) + SumStake(S \ {v})

total_epoch_stake == SumStake(Validators)

\* leader_schedule_cache.slot_leader_at: the schedule is a fixed function of
\* the slot; this node leads the odd slots.
slot_leader_at(slot) == IF slot % 2 = 1 THEN "me" ELSE "v1"

\* The hash a bank takes when it is frozen: a digest of the block, distinct
\* for distinct blocks and never Hash::default().
FrozenHash(slot) == slot + 1

(***************************************************************************)
(* BankForks: banks is a function from the slots held to                   *)
(* [parent, frozen]; root is BankForks::root().                            *)
(***************************************************************************)
bank_hash_of(banks_, s) == IF banks_[s].frozen THEN FrozenHash(s) ELSE DefaultHash

RECURSIVE Ancestors(_, _)
Ancestors(banks_, s) ==
  IF s \notin DOMAIN banks_ \/ banks_[s].parent \notin DOMAIN banks_
  THEN {}
  ELSE {banks_[s].parent} \cup Ancestors(banks_, banks_[s].parent)

Descendants(banks_, s) == {d \in DOMAIN banks_ : s \in Ancestors(banks_, d)}

frozen_banks(banks_) == {s \in DOMAIN banks_ : banks_[s].frozen}
active_banks(banks_) == {s \in DOMAIN banks_ : ~banks_[s].frozen}

Restrict(f, S) == [x \in S |-> f[x]]

\* BankForks::set_root: keeps the root, its descendants, and the ancestors
\* of the root at or above the highest confirmed root.
BankForks_set_root(banks_, new_root, highest_confirmed_root) ==
  LET hcr == IF highest_confirmed_root = NoSlot THEN new_root
             ELSE highest_confirmed_root
      keep == {s \in DOMAIN banks_ :
                 \/ s = new_root
                 \/ new_root \in Ancestors(banks_, s)
                 \/ (s < new_root /\ s >= hcr /\ s \in Ancestors(banks_, new_root))}
  IN Restrict(banks_, keep)


(***************************************************************************)
(* ProgressMap (progress_map.rs): a function from slots to ForkProgress.   *)
(* ForkStats and PropagatedStats are flattened into the entry.             *)
(***************************************************************************)
\* ForkProgress::new for a bank whose collector is this node or another one;
\* stake and total_epoch_stake_ are what the bank answers for this node's
\* vote account and for its epoch (ValidatorStakeInfo).
ForkProgress_new_with_stake(is_leader, prev_leader_slot, stake, total_epoch_stake_) ==
  [ is_dead |-> FALSE,
    computed |-> FALSE,
    bank_hash |-> NoHash,
    is_supermajority_confirmed |-> FALSE,
    my_latest_landed_vote |-> NoSlot,
    is_locked_out |-> FALSE,
    vote_threshold |-> FALSE,
    is_leader_slot |-> is_leader,
    prev_leader_slot |-> prev_leader_slot,
    propagated_validators |-> IF is_leader THEN {"me"} ELSE {},
    propagated_node_ids |-> {},
    propagated_validators_stake |-> IF is_leader THEN stake ELSE 0,
    is_propagated |->
      IF is_leader
      THEN (total_epoch_stake_ = 0 \/ 3 * stake > total_epoch_stake_)
      ELSE FALSE,
    total_epoch_stake |-> IF is_leader THEN total_epoch_stake_ ELSE 0 ]

\* ForkProgress::new, reached through ForkProgress::new_from_bank: the
\* validator_stake_info is Some exactly when the bank's collector is this node.
ForkProgress_new(slot, prev_leader_slot) ==
  ForkProgress_new_with_stake(slot_leader_at(slot) = "me", prev_leader_slot,
                              epoch_vote_account_stake("me"), total_epoch_stake)

\* ProgressMap::get_latest_leader_slot (the caller holds slot in the map).
get_latest_leader_slot(progress_, slot) ==
  IF progress_[slot].is_leader_slot THEN slot ELSE progress_[slot].prev_leader_slot

IsPropagatedMissingLeaderFalse(progress_, slot) ==
  LET leader_slot_to_check == get_latest_leader_slot(progress_, slot)
  IN IF leader_slot_to_check = NoSlot THEN TRUE
     ELSE IF leader_slot_to_check \in DOMAIN progress_
          THEN progress_[leader_slot_to_check].is_propagated
          ELSE FALSE

\* ProgressMap::is_propagated.
is_propagated(progress_, slot) ==
  LET leader_slot_to_check == get_latest_leader_slot(progress_, slot)
  IN IF leader_slot_to_check = NoSlot THEN TRUE
     ELSE IF leader_slot_to_check \in DOMAIN progress_
          THEN progress_[leader_slot_to_check].is_propagated
          ELSE TRUE

\* ProgressMap::get_bank_prev_leader_slot.
get_bank_prev_leader_slot(progress_, parent_slot) ==
  IF parent_slot \in DOMAIN progress_
  THEN IF progress_[parent_slot].is_leader_slot THEN parent_slot
       ELSE progress_[parent_slot].prev_leader_slot
  ELSE NoSlot

\* ProgressMap::handle_new_root: retain the keys BankForks still holds.
ProgressMap_handle_new_root(progress_, banks_) ==
  Restrict(progress_, DOMAIN progress_ \cap DOMAIN banks_)

\* ProgressMap::set_supermajority_confirmed_slot.
set_supermajority_confirmed_slot(progress_, slot) ==
  [progress_ EXCEPT ![slot].is_supermajority_confirmed = TRUE]

(***************************************************************************)
(* Propagation (replay_stage.rs).                                          *)
(***************************************************************************)
\* The result of update_slot_propagated_threshold_from_votes: the leader's
\* stats, the two lists as retained, and did_newly_reach_threshold.
\* PropagatedStats::add_vote_pubkey and add_node_pubkey are applied to every
\* listed key; a node's vote account is the like-named key.
update_slot_propagated_threshold_from_votes(newly_voted_pubkeys, cluster_slot_pubkeys, stats, did_child_reach_threshold) ==
  IF did_child_reach_threshold
  THEN [ stats |-> [stats EXCEPT !.is_propagated = TRUE],
         newly_voted_pubkeys |-> newly_voted_pubkeys,
         cluster_slot_pubkeys |-> cluster_slot_pubkeys,
         did |-> ~stats.is_propagated ]
  ELSE IF stats.is_propagated
  THEN [ stats |-> stats,
         newly_voted_pubkeys |-> newly_voted_pubkeys,
         cluster_slot_pubkeys |-> cluster_slot_pubkeys,
         did |-> FALSE ]
  ELSE
    LET voted == stats.propagated_validators \cup newly_voted_pubkeys
        new_nodes == cluster_slot_pubkeys \ stats.propagated_node_ids
        validators == voted \cup new_nodes
        stake == stats.propagated_validators_stake
                   + SumStake(validators \ stats.propagated_validators)
        reached == stats.total_epoch_stake = 0
                     \/ 3 * stake > stats.total_epoch_stake
    IN [ stats |-> [stats EXCEPT
                      !.propagated_validators = validators,
                      !.propagated_node_ids = @ \cup new_nodes,
                      !.propagated_validators_stake = stake,
                      !.is_propagated = reached],
         newly_voted_pubkeys |-> newly_voted_pubkeys \ stats.propagated_validators,
         cluster_slot_pubkeys |-> new_nodes,
         did |-> reached ]

\* The loop of update_fork_propagated_threshold_from_votes, from
\* current_leader_slot backwards along prev_leader_slot.
RECURSIVE PropagateBack(_, _, _, _, _, _)
PropagateBack(progress_, newly_voted_pubkeys, cluster_slot_pubkeys, current_leader_slot, did_newly_reach_threshold, root_) ==
  IF current_leader_slot = NoSlot \/ current_leader_slot < root_
  THEN progress_
  ELSE
    LET stats == progress_[current_leader_slot]
    IN IF \/ stats.is_propagated
          \/ (newly_voted_pubkeys = {} /\ cluster_slot_pubkeys = {}
                /\ ~did_newly_reach_threshold)
       THEN progress_
       ELSE
         LET r == update_slot_propagated_threshold_from_votes(
                    newly_voted_pubkeys, cluster_slot_pubkeys, stats,
                    did_newly_reach_threshold)
         IN PropagateBack([progress_ EXCEPT ![current_leader_slot] = r.stats],
                          r.newly_voted_pubkeys, r.cluster_slot_pubkeys,
                          stats.prev_leader_slot,
                          r.did \/ did_newly_reach_threshold, root_)

update_fork_propagated_threshold_from_votes(progress_, newly_voted_pubkeys, cluster_slot_pubkeys, fork_tip, root_) ==
  PropagateBack(progress_, newly_voted_pubkeys, cluster_slot_pubkeys,
                get_latest_leader_slot(progress_, fork_tip), FALSE, root_)

\* update_propagation_status; the votes and node ids newly seen for the slot
\* come from the VoteTracker and ClusterSlots.
update_propagation_status(progress_, slot, newly_voted_pubkeys, cluster_slot_pubkeys, root_) ==
  IF is_propagated(progress_, slot) THEN progress_
  ELSE update_fork_propagated_threshold_from_votes(
         progress_, newly_voted_pubkeys, cluster_slot_pubkeys, slot, root_)


(***************************************************************************)
(* Tower (consensus): the vote stack, oldest vote first, each vote a       *)
(* [slot, confirmation_count].  A vote locks out the slots up to           *)
(* slot + 2^confirmation_count that do not descend from it.  The blockhash *)
(* of the last vote transaction is not kept: whether it is still valid in  *)
(* a bank is an input of refresh_last_vote.                                *)
(***************************************************************************)
EmptyTower == [votes |-> <<>>]

tower_slots(tower_) == {tower_.votes[i].slot : i \in 1..Len(tower_.votes)}

\* Tower::last_voted_slot.
last_voted_slot(tower_) ==
  IF tower_.votes = <<>> THEN NoSlot ELSE tower_.votes[Len(tower_.votes)].slot

last_locked_out_slot(vote) == vote.slot + 2 ^ vote.confirmation_count

\* VoteState::pop_expired_votes.
RECURSIVE pop_expired_votes(_, _)
pop_expired_votes(votes, slot) ==
  IF votes # <<>> /\ last_locked_out_slot(votes[Len(votes)]) < slot
  THEN pop_expired_votes(SubSeq(votes, 1, Len(votes) - 1), slot)
  ELSE votes

\* VoteState::double_lockouts.
double_lockouts(votes) ==
  [i \in 1..Len(votes) |->
     IF Len(votes) > (i - 1) + votes[i].confirmation_count
     THEN [votes[i] EXCEPT !.confirmation_count = @ + 1]
     ELSE votes[i]]

\* Tower::record_bank_vote: the new stack and Option<new_root>.  The oldest
\* vote of a full stack becomes the root.
record_bank_vote(tower_, slot) ==
  LET live == pop_expired_votes(tower_.votes, slot)
      full == Len(live) = TowerDepth
      kept == IF full THEN Tail(live) ELSE live
      pushed == double_lockouts(Append(kept, [slot |-> slot, confirmation_count |-> 1]))
  IN [ tower |-> [tower_ EXCEPT !.votes = pushed],
       new_root |-> IF full THEN Head(live).slot ELSE NoSlot ]

\* Tower::is_locked_out: after the vote on slot, every vote left on the
\* stack must be an ancestor of slot.
Tower_is_locked_out(tower_, slot, ancestors) ==
  \/ (last_voted_slot(tower_) # NoSlot /\ slot <= last_voted_slot(tower_))
  \/ LET live == pop_expired_votes(tower_.votes, slot)
     IN \E i \in 1..Len(live) : live[i].slot \notin ancestors

\* Tower::check_vote_stake_threshold: the stack never reaches the threshold
\* depth within TowerDepth votes, and the check then passes.
Tower_check_vote_stake_threshold(tower_, slot) == TRUE

(***************************************************************************)
(* HeaviestSubtreeForkChoice: the tree's root and its nodes, each a        *)
(* (slot, hash) key; the tree's edges are those of the banks.              *)
(***************************************************************************)
\* HeaviestSubtreeForkChoice::new_from_frozen_banks.
new_from_frozen_banks(root_key, banks_) ==
  [ root |-> root_key,
    nodes |-> {<<s, bank_hash_of(banks_, s)>> :
                 s \in {x \in frozen_banks(banks_) : x >= root_key[1]}} ]

\* HeaviestSubtreeForkChoice::add_new_leaf_slot.
add_new_leaf_slot(fork_choice_, key) ==
  [fork_choice_ EXCEPT !.nodes = @ \cup {key}]

\* HeaviestSubtreeForkChoice::set_root: the subtree of the new root remains.
fork_choice_set_root(fork_choice_, root_key, banks_) ==
  [ root |-> root_key,
    nodes |-> {k \in fork_choice_.nodes :
                 k = root_key \/ root_key[1] \in Ancestors(banks_, k[1])} ]

fork_choice_slots(fork_choice_) == {k[1] : k \in fork_choice_.nodes}

\* The leaves select_forks may return as heaviest: the stake that decides
\* among them is the cluster's.
fork_choice_leaves(fork_choice_, banks_) ==
  {s \in fork_choice_slots(fork_choice_) :
     Descendants(banks_, s) \cap fork_choice_slots(fork_choice_) = {}}

\* The leaves on the fork of the last vote, for heaviest_bank_on_same_voted_fork.
leaves_on_voted_fork(fork_choice_, banks_, tower_) ==
  LET last == last_voted_slot(tower_)
  IN IF last = NoSlot \/ last \notin fork_choice_slots(fork_choice_) THEN {}
     ELSE {s \in fork_choice_leaves(fork_choice_, banks_) :
             s = last \/ last \in Ancestors(banks_, s)}

\* The children of a slot in the tree of banks.
Children(banks_, s) == {c \in DOMAIN banks_ : banks_[c].parent = s}

\* HeaviestSubtreeForkChoice::stake_voted_subtree: the stake voted at the
\* slot plus the subtree stakes of its children.
RECURSIVE stake_voted_subtree(_, _, _)
stake_voted_subtree(banks_, stake_voted_at, s) ==
  LET RECURSIVE Sum(_)
      Sum(C) == IF C = {} THEN 0
                ELSE LET c == CHOOSE x \in C : TRUE
                     IN stake_voted_subtree(banks_, stake_voted_at, c) + Sum(C \ {c})
  IN stake_voted_at[s] + Sum(Children(banks_, s))

RECURSIVE BestSlotTiesToHigherSlot(_, _, _)
BestSlotTiesToHigherSlot(banks_, stake_voted_at, s) ==
  IF Children(banks_, s) = {} THEN s
  ELSE LET w(c) == stake_voted_subtree(banks_, stake_voted_at, c)
           best == CHOOSE c \in Children(banks_, s) :
                     \A d \in Children(banks_, s) :
                       w(c) > w(d) \/ (w(c) = w(d) /\ c >= d)
       IN BestSlotTiesToHigherSlot(banks_, stake_voted_at, best)

\* HeaviestSubtreeForkChoice::best_slot: from the slot down to a leaf, each
\* time into the child with the greatest subtree stake, the lower slot
\* when the stakes are equal.  select_forks returns best_slot of the root
\* as the heaviest bank.
RECURSIVE best_slot(_, _, _)
best_slot(banks_, stake_voted_at, s) ==
  IF Children(banks_, s) = {} THEN s
  ELSE LET w(c) == stake_voted_subtree(banks_, stake_voted_at, c)
           best == CHOOSE c \in Children(banks_, s) :
                     \A d \in Children(banks_, s) :
                       w(c) > w(d) \/ (w(c) = w(d) /\ c <= d)
       IN best_slot(banks_, stake_voted_at, best)

(***************************************************************************)
(* check_slot_agrees_with_cluster (cluster_slot_state_verifier): a         *)
(* Duplicate signal for a slot above the root enters the tracker; no state *)
(* update adds or removes a progress entry or a fork-choice node.          *)
(***************************************************************************)
check_slot_agrees_with_cluster(tracker, slot, root_, slot_state_update) ==
  IF slot > root_ /\ slot_state_update = "Duplicate"
  THEN tracker \cup {slot}
  ELSE tracker

\* UnfrozenGossipVerifiedVoteHashes::set_root: the votes for slots below the
\* root are dropped.  A parked vote is a (slot, hash, pubkey).
UnfrozenGossipVerifiedVoteHashes_set_root(votes_per_slot, new_root) ==
  {v \in votes_per_slot : v[1] >= new_root}

(***************************************************************************)
(* Functions of the replay stage that act on their arguments alone.        *)
(***************************************************************************)
IsPartitionDetectedMissingMeansPartition(ancestors, last_voted_slot_, heaviest_slot) ==
  /\ last_voted_slot_ # heaviest_slot
  /\ ~(IF heaviest_slot \in DOMAIN ancestors
       THEN last_voted_slot_ \in ancestors[heaviest_slot]
       ELSE FALSE)

\* is_partition_detected: ancestors is BankForks::ancestors, a map from a
\* slot to the set of its ancestors.
is_partition_detected(ancestors, last_voted_slot_, heaviest_slot) ==
  /\ last_voted_slot_ # heaviest_slot
  /\ ~(IF heaviest_slot \in DOMAIN ancestors
       THEN last_voted_slot_ \in ancestors[heaviest_slot]
       ELSE TRUE)

\* clock::NUM_CONSECUTIVE_LEADER_SLOTS.
NUM_CONSECUTIVE_LEADER_SLOTS == 4

ShouldRetransmitStrictlyLater(poh_slot, last_retransmit_slot) ==
  IF \/ poh_slot < last_retransmit_slot
     \/ poh_slot > last_retransmit_slot + NUM_CONSECUTIVE_LEADER_SLOTS
  THEN [result |-> TRUE, last_retransmit_slot |-> poh_slot]
  ELSE [result |-> FALSE, last_retransmit_slot |-> last_retransmit_slot]

\* should_retransmit: the value returned and *last_retransmit_slot after the
\* call.
should_retransmit(poh_slot, last_retransmit_slot) ==
  IF \/ poh_slot < last_retransmit_slot
     \/ poh_slot >= last_retransmit_slot + NUM_CONSECUTIVE_LEADER_SLOTS
  THEN [result |-> TRUE, last_retransmit_slot |-> poh_slot]
  ELSE [result |-> FALSE, last_retransmit_slot |-> last_retransmit_slot]

\* The hash of the second version of the block of a slot.
OtherVersionHash(slot) == FrozenHash(slot) + MaxSlot + 1

\* GossipDuplicateConfirmedSlots::insert (BTreeMap::insert).
GossipInsert(gossip, slot, hash) ==
  [s \in DOMAIN gossip \cup {slot} |-> IF s = slot THEN hash ELSE gossip[s]]

RECURSIVE GossipSignalsRecordingOnly(_, _, _, _, _)
GossipSignalsRecordingOnly(st, new_confirmed_slots, i, root_, banks_) ==
  IF i > Len(new_confirmed_slots) \/ st.left # "no" THEN st
  ELSE LET confirmed_slot == new_confirmed_slots[i].slot
           confirmed_hash == new_confirmed_slots[i].hash
       IN IF confirmed_slot <= root_
          THEN GossipSignalsRecordingOnly(st, new_confirmed_slots, i + 1, root_, banks_)
          ELSE IF confirmed_slot \in DOMAIN st.gossip
          THEN [st EXCEPT
                  !.gossip = GossipInsert(@, confirmed_slot, confirmed_hash),
                  !.left = IF st.gossip[confirmed_slot] = confirmed_hash
                           THEN "returned" ELSE "panicked"]
          ELSE GossipSignalsRecordingOnly(
                 [st EXCEPT !.gossip = GossipInsert(@, confirmed_slot, confirmed_hash)],
                 new_confirmed_slots, i + 1, root_, banks_)

\* The inner loop of process_gossip_duplicate_confirmed_slots over one message
\* of the channel, from its i-th signal on.  st holds the map, the tracker,
\* the calls of check_slot_agrees_with_cluster made so far (slot, hash of the
\* bank in BankForks if any, state) and how the function was left: "no",
\* "returned" or "panicked" (the assert_eq on a different hash).
RECURSIVE GossipSignals(_, _, _, _, _)
GossipSignals(st, new_confirmed_slots, i, root_, banks_) ==
  IF i > Len(new_confirmed_slots) \/ st.left # "no" THEN st
  ELSE LET confirmed_slot == new_confirmed_slots[i].slot
           confirmed_hash == new_confirmed_slots[i].hash
       IN IF confirmed_slot <= root_
          THEN GossipSignals(st, new_confirmed_slots, i + 1, root_, banks_)
          ELSE IF confirmed_slot \in DOMAIN st.gossip
          THEN [st EXCEPT
                  !.gossip = GossipInsert(@, confirmed_slot, confirmed_hash),
                  !.left = IF st.gossip[confirmed_slot] = confirmed_hash
                           THEN "returned" ELSE "panicked"]
          ELSE GossipSignals(
                 [st EXCEPT
                    !.gossip = GossipInsert(@, confirmed_slot, confirmed_hash),
                    !.tracker = check_slot_agrees_with_cluster(
                                  @, confirmed_slot, root_, "DuplicateConfirmed"),
                    !.checked = Append(@,
                      <<confirmed_slot,
                        IF confirmed_slot \in DOMAIN banks_
                        THEN bank_hash_of(banks_, confirmed_slot) ELSE NoHash,
                        "DuplicateConfirmed">>)],
                 new_confirmed_slots, i + 1, root_, banks_)

\* process_gossip_duplicate_confirmed_slots: try_iter takes the messages off
\* the channel one by one; a message taken is gone, the messages not taken
\* when the function is left stay in the channel.
RECURSIVE process_gossip_duplicate_confirmed_slots(_, _, _)
process_gossip_duplicate_confirmed_slots(st, root_, banks_) ==
  IF st.receiver = <<>> \/ st.left # "no" THEN st
  ELSE process_gossip_duplicate_confirmed_slots(
         GossipSignals([st EXCEPT !.receiver = Tail(@)], Head(st.receiver), 1,
                       root_, banks_),
         root_, banks_)

\* MAX_VOTE_SIGNATURES, the capacity of the buffer of vote signatures (200 in
\* the source; scaled down).
MAX_VOTE_SIGNATURES == 2

\* Option<Signature>::None and Option<Pubkey>::None.
NoSignature == 0
NoLeader == "none"

GenerateVoteTxKeepingOldest(vote_signatures, has_new_vote_been_rooted_, can_sign, signature) ==
  IF ~can_sign
  THEN [vote_tx |-> NoSignature, vote_signatures |-> vote_signatures]
  ELSE [vote_tx |-> signature,
        vote_signatures |->
          IF ~has_new_vote_been_rooted_
          THEN IF Len(vote_signatures) >= MAX_VOTE_SIGNATURES
               THEN vote_signatures
               ELSE Append(vote_signatures, signature)
          ELSE <<>>]

\* generate_vote_tx: the transaction returned (its signature, or none when
\* the keypairs, the vote account or the authorized voter are not to be had:
\* can_sign is false) and *vote_signatures after the call.
generate_vote_tx(vote_signatures, has_new_vote_been_rooted_, can_sign, signature) ==
  IF ~can_sign
  THEN [vote_tx |-> NoSignature, vote_signatures |-> vote_signatures]
  ELSE [vote_tx |-> signature,
        vote_signatures |->
          IF ~has_new_vote_been_rooted_
          THEN LET pushed == Append(vote_signatures, signature)
               IN IF Len(pushed) > MAX_VOTE_SIGNATURES THEN Tail(pushed) ELSE pushed
          ELSE <<>>]

\* handle_new_root, the lines between bank_forks.set_root and
\* progress.handle_new_root: has_new_vote_been_rooted and voted_signatures
\* after them, signature_status being the signatures the new root bank has a
\* status for.
new_vote_rooted(has_new_vote_been_rooted_, voted_signatures_, signature_status) ==
  IF has_new_vote_been_rooted_
  THEN [has_new_vote_been_rooted |-> TRUE, voted_signatures |-> voted_signatures_]
  ELSE LET found == \E i \in 1..Len(voted_signatures_) :
                       voted_signatures_[i] \in signature_status
       IN [has_new_vote_been_rooted |-> found,
           voted_signatures |-> IF found THEN <<>> ELSE voted_signatures_]

CheckPropagationSkippingAlways(poh_slot, parent_slot, progress_) ==
  get_latest_leader_slot(progress_, parent_slot) # NoSlot
    \/ is_propagated(progress_, parent_slot)

\* check_propagation_for_start_leader.
check_propagation_for_start_leader(poh_slot, parent_slot, progress_) ==
  LET latest_leader_slot == get_latest_leader_slot(progress_, parent_slot)
  IN IF /\ latest_leader_slot # NoSlot
        /\ poh_slot - latest_leader_slot < NUM_CONSECUTIVE_LEADER_SLOTS
     THEN TRUE
     ELSE is_propagated(progress_, parent_slot)

\* What maybe_start_leader comes to: the slot of the working bank it installs
\* (none when it returns early), the SkippedSlotsInfo after the call and the
\* slot it sends for retransmission (none when it sends nothing).
MaybeStartLeaderResult(tpu_bank, skipped_slots_info_, retransmit) ==
  [tpu_bank |-> tpu_bank, skipped_slots_info |-> skipped_slots_info_,
   retransmit |-> retransmit]

MaybeStartLeaderIgnoringRootedVote(banks_, progress_, reached, next_leader, skipped_slots_info_, has_new_vote_been_rooted_) ==
  IF \/ ~reached.reached_leader_slot
     \/ reached.poh_slot \in DOMAIN banks_
     \/ next_leader = NoLeader
     \/ next_leader # "me"
  THEN MaybeStartLeaderResult(NoSlot, skipped_slots_info_, NoSlot)
  ELSE IF ~check_propagation_for_start_leader(reached.poh_slot, reached.parent_slot, progress_)
  THEN LET latest_unconfirmed_leader_slot ==
             get_latest_leader_slot(progress_, reached.parent_slot)
           sent == should_retransmit(reached.poh_slot,
                                     skipped_slots_info_.last_retransmit_slot)
       IN MaybeStartLeaderResult(
            NoSlot,
            [last_skipped_slot |-> reached.poh_slot,
             last_retransmit_slot |-> sent.last_retransmit_slot],
            IF sent.result THEN latest_unconfirmed_leader_slot ELSE NoSlot)
  ELSE MaybeStartLeaderResult(reached.poh_slot, skipped_slots_info_, NoSlot)

\* maybe_start_leader; reached is (reached_leader_slot, poh_slot, parent_slot)
\* as the PoH recorder reports them, parent_slot a frozen bank of the forks,
\* and next_leader what the leader schedule answers for poh_slot.
maybe_start_leader(banks_, progress_, reached, next_leader, skipped_slots_info_, has_new_vote_been_rooted_) ==
  IF \/ ~reached.reached_leader_slot
     \/ reached.poh_slot \in DOMAIN banks_
     \/ next_leader = NoLeader
     \/ ~has_new_vote_been_rooted_
     \/ next_leader # "me"
  THEN MaybeStartLeaderResult(NoSlot, skipped_slots_info_, NoSlot)
  ELSE IF ~check_propagation_for_start_leader(reached.poh_slot, reached.parent_slot, progress_)
  THEN LET latest_unconfirmed_leader_slot ==
             get_latest_leader_slot(progress_, reached.parent_slot)
           sent == should_retransmit(reached.poh_slot,
                                     skipped_slots_info_.last_retransmit_slot)
       IN MaybeStartLeaderResult(
            NoSlot,
            [last_skipped_slot |-> reached.poh_slot,
             last_retransmit_slot |-> sent.last_retransmit_slot],
            IF sent.result THEN latest_unconfirmed_leader_slot ELSE NoSlot)
  ELSE MaybeStartLeaderResult(reached.poh_slot, skipped_slots_info_, NoSlot)

\* BankForks::ancestors.
AncestorsMap(banks_) == [s \in DOMAIN banks_ |-> Ancestors(banks_, s)]

\* Bank::last_blockhash of a frozen bank: one hash per block, none of them
\* Hash::default().
last_blockhash(slot) == slot + 1

FinalizerDropLeavesFlag(exit_) == exit_

\* Finalizer::drop: the value of the shared exit flag after the guard of the
\* replay thread is dropped.
Finalizer_drop(exit_) == TRUE

(***************************************************************************)
(* State of the replay loop.                                               *)
(***************************************************************************)
VARIABLES
  pc,                       \* the next stage of the loop body, or "exited"
  banks, root,              \* BankForks
  progress,                 \* ProgressMap
  fork_choice,              \* HeaviestSubtreeForkChoice
  duplicate_slots_tracker,  \* DuplicateSlotsTracker
  dead_slots,               \* slots marked dead in the block store
  blockstore_slots,         \* slots whose block (and so whose parent) the block store holds
  blockstore_roots,         \* slots marked as roots in the block store
  leader_schedule_root,     \* the root last given to the leader-schedule cache
  selected,                 \* the forks selected in this iteration
  tower,                    \* the Tower in memory
  saved_tower,              \* the Tower as last persisted by Tower::save
  replay_results,           \* the outcome of each bank replayed in this iteration
  trace,                    \* the effects of the voting stage of this iteration, in order
  pe,                       \* process_entries_with_callback: its input, locals and position
  exec_log,                 \* the transactions begun and finished and the ticks registered, in order
  gossip_duplicate_confirmed_slots,      \* GossipDuplicateConfirmedSlots: slot -> hash
  unfrozen_gossip_verified_vote_hashes,  \* UnfrozenGossipVerifiedVoteHashes: the votes parked, each a (slot, hash, pubkey)
  call,                     \* a single call of a function under examination: its arguments and result
  exit,                     \* the exit flag shared with the other threads
  last_reset,               \* the last blockhash of the bank block production was last reset to
  partition_exists,         \* whether the loop has reported a partition that is not yet resolved
  wait_for_vote_to_start_leader,  \* ReplayStageConfig::wait_for_vote_to_start_leader
  has_new_vote_been_rooted, \* the loop's flag of that name
  voted_signatures,         \* the signatures of the votes signed while the flag is false
  poh_recorder,             \* the PoH recorder: the working bank it holds, if any
  skipped_slots_info,       \* SkippedSlotsInfo: last_retransmit_slot and last_skipped_slot
  retransmit_slots,         \* the slots sent on retransmit_slots_sender
  my_votes,                 \* the vote transactions signed so far, and whether one was seen in a root bank
  gossip_verified_vote_hash_receiver,       \* the (pubkey, slot, hash) votes waiting in the channel from gossip
  latest_validator_votes_for_frozen_banks,  \* LatestValidatorVotesForFrozenBanks: the votes it was given
  duplicate_slots_receiver  \* the slots waiting in the channel of duplicate-slot signals, oldest first

vars == <<pc, banks, root, progress, fork_choice, duplicate_slots_tracker,
          dead_slots, blockstore_slots, blockstore_roots, leader_schedule_root,
          selected, tower, saved_tower, replay_results, trace, pe, exec_log,
          gossip_duplicate_confirmed_slots, unfrozen_gossip_verified_vote_hashes,
          call, exit, last_reset, partition_exists,
          wait_for_vote_to_start_leader, has_new_vote_been_rooted,
          voted_signatures, poh_recorder, skipped_slots_info, retransmit_slots,
          my_votes, gossip_verified_vote_hash_receiver,
          latest_validator_votes_for_frozen_banks,
          duplicate_slots_receiver>>

\* The exit flag and the locals of the thread that outlive an iteration.
loop_vars == <<exit, last_reset, partition_exists>>

\* The thread's locals as constructed (ReplayStage::new).
InitLoop ==
  /\ exit = FALSE
  /\ last_reset = DefaultHash
  /\ partition_exists = FALSE

\* The locals that decide whether this node may produce a block, what it
\* tells the PoH recorder and the retransmit stage, and the votes it signed.
leader_vars ==
  <<wait_for_vote_to_start_leader, has_new_vote_been_rooted, voted_signatures,
    poh_recorder, skipped_slots_info, retransmit_slots, my_votes>>

\* Those locals as constructed (ReplayStage::new) under a configuration with
\* the given wait_for_vote_to_start_leader: no signature recorded, no working
\* bank, SkippedSlotsInfo::default().
InitLeader(wait) ==
  /\ wait_for_vote_to_start_leader = wait
  /\ has_new_vote_been_rooted = ~wait
  /\ voted_signatures = <<>>
  /\ poh_recorder = [bank |-> NoSlot]
  /\ skipped_slots_info = [last_retransmit_slot |-> 0, last_skipped_slot |-> 0]
  /\ retransmit_slots = {}
  /\ my_votes = [signed |-> 0, rooted |-> FALSE]

\* The channel of gossip-verified votes and the latest votes for frozen banks.
vote_channel_vars ==
  <<gossip_verified_vote_hash_receiver, latest_validator_votes_for_frozen_banks,
    duplicate_slots_receiver>>

\* Nothing received from gossip yet, LatestValidatorVotesForFrozenBanks::default().
InitVoteChannel ==
  /\ gossip_verified_vote_hash_receiver = <<>>
  /\ latest_validator_votes_for_frozen_banks = {}
  /\ duplicate_slots_receiver = <<>>

\* No call under examination.
NoCall == [fn |-> "none"]

\* What the stages of the replay loop other than the voting stage leave alone.
gossip_vars == <<gossip_duplicate_confirmed_slots, unfrozen_gossip_verified_vote_hashes>>

\* The smallest slot of a non-empty set.
MinSlot(S) == CHOOSE s \in S : \A t \in S : s <= t

\* initialize_progress_and_fork_choice: an entry for every frozen bank, in
\* ascending slot order.
RECURSIVE InitProgress(_, _, _)
InitProgress(progress_, banks_, todo) ==
  IF todo = {} THEN progress_
  ELSE LET s == MinSlot(todo)
           entry == ForkProgress_new(s, get_bank_prev_leader_slot(progress_, banks_[s].parent))
       IN InitProgress([x \in DOMAIN progress_ \cup {s} |->
                          IF x = s THEN entry ELSE progress_[x]],
                       banks_, todo \ {s})

initialize_progress_and_fork_choice(banks_, root_) ==
  [ progress |-> InitProgress(<<>>, banks_, frozen_banks(banks_)),
    fork_choice |-> new_from_frozen_banks(<<root_, bank_hash_of(banks_, root_)>>, banks_) ]

\* No fork selected yet: heaviest_bank, heaviest_bank_on_same_voted_fork,
\* the SelectVoteAndResetForkResult, and `ancestors`, the map the iteration
\* took from BankForks before replaying.
NoSelection ==
  [ heaviest_bank |-> NoSlot,
    heaviest_bank_on_same_voted_fork |-> NoSlot,
    vote_bank |-> NoSlot,
    reset_bank |-> NoSlot,
    switch_fork_decision |-> "None",
    ancestors |-> <<>> ]

\* The entry processor at rest.
NoEntries ==
  [ entries |-> <<>>, pc |-> "idle", idx |-> 1, batches |-> <<>>,
    tick_hashes |-> <<>>, tick_height |-> 0, running |-> <<>>,
    failed_batches |-> {}, then |-> "none" ]

GenesisBanks == [s \in {0} |-> [parent |-> NoSlot, frozen |-> TRUE]]

Init ==
  /\ pc = "generate"
  /\ banks = GenesisBanks
  /\ root = 0
  /\ progress = initialize_progress_and_fork_choice(GenesisBanks, 0).progress
  /\ fork_choice = initialize_progress_and_fork_choice(GenesisBanks, 0).fork_choice
  /\ duplicate_slots_tracker = {}
  /\ dead_slots = {}
  /\ blockstore_slots = {0}
  /\ blockstore_roots = {0}
  /\ leader_schedule_root = 0
  /\ selected = NoSelection
  /\ tower = EmptyTower
  /\ saved_tower = EmptyTower
  /\ replay_results = <<>>
  /\ trace = <<>>
  /\ pe = NoEntries
  /\ exec_log = <<>>
  /\ gossip_duplicate_confirmed_slots = <<>>
  /\ unfrozen_gossip_verified_vote_hashes = {}
  /\ call = NoCall
  /\ InitLoop
  /\ InitLeader(FALSE)
  /\ InitVoteChannel


(***************************************************************************)
(* Stage 1: generate_new_bank_forks.                                       *)
(***************************************************************************)
\* The (parent, child) pairs blockstore.get_slots_since may newly report for
\* the frozen banks at or above the root: a block has one parent, so a slot
\* the block store already holds is no new child.
NewChildren(banks_, root_, known) ==
  {pc_ \in Slots \X Slots :
     /\ pc_[1] \in frozen_banks(banks_) /\ pc_[1] >= root_
     /\ pc_[2] > pc_[1]
     /\ pc_[2] \notin DOMAIN banks_
     /\ pc_[2] \notin known}

\* The lists of at most n new banks, each child slot once.
RECURSIVE NewBankLists(_, _, _, _)
NewBankLists(banks_, root_, known, n) ==
  IF n = 0 THEN {<<>>}
  ELSE LET shorter == NewBankLists(banks_, root_, known, n - 1)
       IN shorter \cup
          {Append(q, c) : <<q, c>> \in
             {x \in shorter \X NewChildren(banks_, root_, known) :
                /\ Len(x[1]) = n - 1
                /\ \A i \in 1..Len(x[1]) : x[1][i][2] # x[2][2]}}

\* The loop over the new children: each child's leader is recorded as a
\* node that has seen the parent's fork.
RECURSIVE GenerateFold(_, _, _, _)
GenerateFold(progress_, new_banks, i, root_) ==
  IF i > Len(new_banks) THEN progress_
  ELSE GenerateFold(
         update_fork_propagated_threshold_from_votes(
           progress_, {}, {slot_leader_at(new_banks[i][2])}, new_banks[i][1], root_),
         new_banks, i + 1, root_)

InsertBanks(banks_, new_banks) ==
  LET added == {new_banks[i][2] : i \in 1..Len(new_banks)}
      parent_of(c) == (CHOOSE i \in 1..Len(new_banks) : new_banks[i][2] = c)
  IN [s \in DOMAIN banks_ \cup added |->
        IF s \in DOMAIN banks_ THEN banks_[s]
        ELSE [parent |-> new_banks[parent_of(s)][1], frozen |-> FALSE]]

generate_new_bank_forks ==
  /\ UNCHANGED <<pe, exec_log, call>>
  /\ UNCHANGED gossip_vars
  /\ UNCHANGED loop_vars
  /\ UNCHANGED leader_vars
  /\ UNCHANGED vote_channel_vars
  /\ pc = "generate"
  /\ ~exit
  /\ \E new_banks \in NewBankLists(banks, root, blockstore_slots, MaxNewBanks) :
       /\ progress' = GenerateFold(progress, new_banks, 1, root)
       /\ banks' = InsertBanks(banks, new_banks)
       /\ blockstore_slots' = blockstore_slots
                                \cup {new_banks[i][2] : i \in 1..Len(new_banks)}
  /\ pc' = "replay"
  /\ trace' = <<>>
  /\ UNCHANGED <<root, fork_choice, duplicate_slots_tracker, dead_slots,
                 blockstore_roots, leader_schedule_root, selected, tower,
                 saved_tower, replay_results>>

(***************************************************************************)
(* Stage 2: replay_active_banks.                                           *)
(***************************************************************************)
\* What replaying (or, for a bank this node produces, recording) a bank can
\* come to in one call: an error, more entries but not the whole block, or
\* the completed block.
ReplayOutcomes(slot) ==
  IF slot_leader_at(slot) = "me" THEN {"incomplete", "complete"}
  ELSE {"err", "incomplete", "complete"}

\* The banks the loop body handles: active and not marked dead.
ReplayedBanksWithTheDead(banks_, progress_) == active_banks(banks_)

\* The banks replay_active_banks replays: the active banks not marked dead.
ReplayedBanks(banks_, progress_) ==
  {s \in active_banks(banks_) : ~(s \in DOMAIN progress_ /\ progress_[s].is_dead)}

EntryOnlyForReplayedBanks(progress_, banks_, S) ==
  [s \in DOMAIN progress_ \cup {x \in S : slot_leader_at(x) # "me"} |->
     IF s \in DOMAIN progress_ THEN progress_[s]
     ELSE ForkProgress_new(s, get_bank_prev_leader_slot(progress_, banks_[s].parent))]

\* progress.entry(bank.slot()).or_insert_with(ForkProgress::new_from_bank).
EntryOrInsert(progress_, banks_, S) ==
  [s \in DOMAIN progress_ \cup S |->
     IF s \in DOMAIN progress_ THEN progress_[s]
     ELSE ForkProgress_new(s, get_bank_prev_leader_slot(progress_, banks_[s].parent))]

MarkDeadWithoutFlag(progress_, failed) == progress_

\* mark_dead_slot, for every bank whose replay failed: the flag in the
\* progress map (the block store's mark is dead_slots).
mark_dead_slot(progress_, failed) ==
  [s \in DOMAIN progress_ |->
     IF s \in failed THEN [progress_[s] EXCEPT !.is_dead = TRUE] ELSE progress_[s]]

\* bank.freeze() for every bank whose block is complete.
FreezeBanks(banks_, completed) ==
  [s \in DOMAIN banks_ |->
     IF s \in completed THEN [banks_[s] EXCEPT !.frozen = TRUE] ELSE banks_[s]]

AddLeavesOfUnfrozen(fork_choice_, banks_, completed) ==
  [fork_choice_ EXCEPT !.nodes = @ \cup {<<s, DefaultHash>> : s \in DOMAIN banks_}]

\* add_new_leaf_slot for every bank frozen in this call.
AddLeaves(fork_choice_, banks_, completed) ==
  [fork_choice_ EXCEPT !.nodes = @ \cup {<<s, bank_hash_of(banks_, s)>> : s \in completed}]

replay_active_banks ==
  /\ UNCHANGED <<pe, exec_log, call>>
  /\ UNCHANGED gossip_vars
  /\ UNCHANGED loop_vars
  /\ UNCHANGED leader_vars
  /\ UNCHANGED vote_channel_vars
  /\ pc = "replay"
  /\ LET todo == ReplayedBanks(banks, progress)
     IN \E outcome \in [todo -> {"err", "incomplete", "complete"}] :
          /\ \A s \in todo : outcome[s] \in ReplayOutcomes(s)
          /\ LET failed == {s \in todo : outcome[s] = "err"}
                 completed == {s \in todo : outcome[s] = "complete"}
                 frozen == FreezeBanks(banks, completed)
             IN /\ progress' = mark_dead_slot(EntryOrInsert(progress, banks, todo), failed)
                /\ dead_slots' = dead_slots \cup failed
                /\ banks' = frozen
                /\ fork_choice' = AddLeaves(fork_choice, frozen, completed)
                /\ replay_results' = outcome
  /\ pc' = "duplicates"
  /\ UNCHANGED <<root, duplicate_slots_tracker, blockstore_slots,
                 blockstore_roots, leader_schedule_root, selected, tower,
                 saved_tower, trace>>

(***************************************************************************)
(* Stage 3: process_duplicate_slots.                                       *)
(***************************************************************************)
RECURSIVE DuplicateFold(_, _, _)
DuplicateFold(tracker, new_duplicate_slots, root_) ==
  IF new_duplicate_slots = {} THEN tracker
  ELSE LET s == MinSlot(new_duplicate_slots)
       IN DuplicateFold(check_slot_agrees_with_cluster(tracker, s, root_, "Duplicate"),
                        new_duplicate_slots \ {s}, root_)

\* The signals WindowService may have queued: at most one, for a slot the
\* block store holds and for which a second version of the block exists.
DuplicateSignals == {{}} \cup {{s} : s \in blockstore_slots \cap 1..MaxDuplicate}

process_duplicate_slots ==
  /\ UNCHANGED <<pe, exec_log, call>>
  /\ UNCHANGED gossip_vars
  /\ UNCHANGED loop_vars
  /\ UNCHANGED leader_vars
  /\ UNCHANGED vote_channel_vars
  /\ pc = "duplicates"
  /\ \E new_duplicate_slots \in DuplicateSignals :
       duplicate_slots_tracker' =
         DuplicateFold(duplicate_slots_tracker, new_duplicate_slots, root)
  /\ pc' = "compute"
  /\ replay_results' = <<>>
  /\ UNCHANGED <<banks, root, progress, fork_choice, dead_slots, blockstore_slots,
                 blockstore_roots, leader_schedule_root, selected, tower,
                 saved_tower, trace>>

(***************************************************************************)
(* Stage 4: compute_bank_stats, then confirm_forks and                     *)
(* mark_slots_confirmed for every newly computed slot.                     *)
(***************************************************************************)
MaxSlotOf(S) == CHOOSE s \in S : \A t \in S : s >= t

\* ComputedBankState.my_latest_landed_vote as Tower::collect_vote_lockouts
\* finds it in the bank's vote accounts: this node's latest vote for an
\* ancestor of the bank (a vote lands in the blocks built on the slot it
\* votes for).
LandedVote(tower_, banks_, slot) ==
  LET mine == tower_slots(tower_) \cap Ancestors(banks_, slot)
  IN IF mine # {} THEN MaxSlotOf(mine) ELSE NoSlot

StatsWithParentHash(progress_, banks_, tower_, slot) ==
  [progress_ EXCEPT
     ![slot].bank_hash = IF banks_[slot].parent \in DOMAIN banks_
                         THEN bank_hash_of(banks_, banks_[slot].parent)
                         ELSE DefaultHash,
     ![slot].my_latest_landed_vote = LandedVote(tower_, banks_, slot),
     ![slot].computed = TRUE]

\* The body of `if !is_computed`.
NewStats(progress_, banks_, tower_, slot) ==
  [progress_ EXCEPT
     ![slot].bank_hash = bank_hash_of(banks_, slot),
     ![slot].my_latest_landed_vote = LandedVote(tower_, banks_, slot),
     ![slot].computed = TRUE]

\* The tail of the loop body: the Tower's verdicts on the bank.
TowerStats(progress_, banks_, tower_, slot) ==
  [progress_ EXCEPT
     ![slot].vote_threshold = Tower_check_vote_stake_threshold(tower_, slot),
     ![slot].is_locked_out = Tower_is_locked_out(tower_, slot, Ancestors(banks_, slot))]

\* compute_bank_stats over the frozen banks in ascending slot order.  The
\* VoteTracker holds new votes of `voters` for `voted_slot`.
RECURSIVE compute_bank_stats(_, _, _, _, _, _, _)
compute_bank_stats(progress_, banks_, tower_, root_, todo, voted_slot, voters) ==
  IF todo = {} THEN progress_
  ELSE
    LET slot == MinSlot(todo)
        p1 == IF progress_[slot].computed THEN progress_
              ELSE NewStats(progress_, banks_, tower_, slot)
        p2 == update_propagation_status(
                p1, slot, IF slot = voted_slot THEN voters ELSE {}, {}, root_)
        p3 == TowerStats(p2, banks_, tower_, slot)
    IN compute_bank_stats(p3, banks_, tower_, root_, todo \ {slot},
                          voted_slot, voters)

\* confirm_forks for one newly computed bank: the bank's voted_stakes pass
\* the confirmation threshold for its ancestors up to confirmed_through
\* (stake voted on a slot counts for every ancestor of the slot).
confirm_forks(progress_, banks_, slot, confirmed_through) ==
  {s \in DOMAIN progress_ :
     /\ ~progress_[s].is_supermajority_confirmed
     /\ banks_[s].frozen
     /\ s \in Ancestors(banks_, slot) \cup {slot}
     /\ s <= confirmed_through}

MarkSlotsConfirmedClearing(progress_, confirmed_forks) ==
  [s \in DOMAIN progress_ |->
     [progress_[s] EXCEPT !.is_supermajority_confirmed = s \in confirmed_forks]]

\* mark_slots_confirmed (check_slot_agrees_with_cluster for a
\* DuplicateConfirmed update leaves the tracker as it is).
mark_slots_confirmed(progress_, confirmed_forks) ==
  [s \in DOMAIN progress_ |->
     IF s \in confirmed_forks /\ ~progress_[s].is_supermajority_confirmed
     THEN set_supermajority_confirmed_slot(progress_, s)[s]
     ELSE progress_[s]]

RECURSIVE ConfirmFold(_, _, _, _)
ConfirmFold(progress_, banks_, newly_computed_slot_stats, confirmed_through) ==
  IF newly_computed_slot_stats = {} THEN progress_
  ELSE LET slot == MinSlot(newly_computed_slot_stats)
       IN ConfirmFold(
            mark_slots_confirmed(progress_,
                                 confirm_forks(progress_, banks_, slot, confirmed_through)),
            banks_, newly_computed_slot_stats \ {slot}, confirmed_through)

\* What get_voted_slot_updates may return for a slot in one iteration: no
\* new vote, or the vote of the validator whose stake decides the threshold
\* (v1 is seen through the node ids of generate_new_bank_forks).
NewVoters == {{}, {"v2"}}

compute_stage ==
  /\ UNCHANGED <<pe, exec_log, call>>
  /\ UNCHANGED gossip_vars
  /\ UNCHANGED loop_vars
  /\ UNCHANGED leader_vars
  /\ UNCHANGED vote_channel_vars
  /\ pc = "compute"
  /\ LET frozen == {s \in frozen_banks(banks) : s >= root}
         newly_computed_slot_stats == {s \in frozen : ~progress[s].computed}
     IN \E voted_slot \in frozen \cup {NoSlot}, voters \in NewVoters,
           confirmed_through \in frozen \cup {NoSlot} :
          /\ (voted_slot = NoSlot) = (voters = {})
          /\ (newly_computed_slot_stats = {}) => (confirmed_through = NoSlot)
          /\ progress' =
               ConfirmFold(
                 compute_bank_stats(progress, banks, tower, root, frozen,
                                    voted_slot, voters),
                 banks, newly_computed_slot_stats, confirmed_through)
  /\ pc' = "select"
  /\ UNCHANGED <<banks, root, fork_choice, duplicate_slots_tracker, dead_slots,
                 blockstore_slots, blockstore_roots, leader_schedule_root,
                 selected, tower, saved_tower, replay_results, trace>>

(***************************************************************************)
(* Stage 5: select_forks, refresh_last_vote and                            *)
(* select_vote_and_reset_forks.                                            *)
(***************************************************************************)
\* One effect of the voting path, with what the Tower, its saved copy and
\* the three root holders showed when it took place.
Ev(name, slot, tower_, saved_tower_, bank_forks_root, fork_choice_root, ls_root) ==
  [ ev |-> name, slot |-> slot,
    tower_vote |-> last_voted_slot(tower_),
    saved_vote |-> last_voted_slot(saved_tower_),
    tower_saved |-> tower_ = saved_tower_,
    bank_forks_root |-> bank_forks_root,
    fork_choice_root |-> fork_choice_root,
    leader_schedule_root |-> ls_root ]

RefreshLastVoteIgnoringInterval(tower_, saved_tower_, trace_, heaviest_bank_on_same_fork, my_latest_landed_vote, hash_valid, refreshed_recently, can_sign) ==
  IF last_voted_slot(tower_) = NoSlot
  THEN [tower |-> tower_, trace |-> trace_]
  ELSE IF \/ my_latest_landed_vote >= last_voted_slot(tower_)
          \/ hash_valid
  THEN [tower |-> tower_, trace |-> trace_]
  ELSE IF ~can_sign
  THEN [tower |-> tower_, trace |-> trace_]
  ELSE [ tower |-> tower_,
         trace |-> Append(trace_, Ev("refresh_vote", last_voted_slot(tower_), tower_,
                                     saved_tower_, root, fork_choice.root[1],
                                     leader_schedule_root)) ]

\* refresh_last_vote: the Tower and the trace after the call.  hash_valid is
\* check_hash_age of the last vote's blockhash in the bank, refreshed_recently
\* the MAX_VOTE_REFRESH_INTERVAL_MILLIS test, can_sign whether
\* generate_vote_tx finds the authorized voter's keypair.
refresh_last_vote(tower_, saved_tower_, trace_, heaviest_bank_on_same_fork, my_latest_landed_vote, hash_valid, refreshed_recently, can_sign) ==
  IF last_voted_slot(tower_) = NoSlot
  THEN [tower |-> tower_, trace |-> trace_]
  ELSE IF \/ my_latest_landed_vote >= last_voted_slot(tower_)
          \/ hash_valid
          \/ refreshed_recently
  THEN [tower |-> tower_, trace |-> trace_]
  ELSE IF ~can_sign
  THEN [tower |-> tower_, trace |-> trace_]
  ELSE [ tower |-> tower_,
         trace |-> Append(trace_, Ev("refresh_vote", last_voted_slot(tower_), tower_,
                                     saved_tower_, root, fork_choice.root[1],
                                     leader_schedule_root)) ]

\* Tower::check_switch_threshold as far as the fork structure decides it;
\* off the voted fork the stake observed decides (failed_switch).
SwitchDecisions(tower_, banks_, tracker, heaviest_bank) ==
  LET last == last_voted_slot(tower_)
  IN IF last = NoSlot \/ last = heaviest_bank \/ last \in Ancestors(banks_, heaviest_bank)
     THEN {"SameFork"}
     ELSE {"SwitchProof", "FailedSwitchThreshold"}
          \cup (IF (Ancestors(banks_, last) \cup {last}) \cap tracker # {}
                THEN {"FailedSwitchDuplicateRollback"} ELSE {})

CanVoteUnlessThresholdFailed(switch_fork_decision) ==
  switch_fork_decision # "FailedSwitchThreshold"

\* SwitchForkDecision::can_vote.
can_vote(switch_fork_decision) ==
  switch_fork_decision \in {"SameFork", "SwitchProof"}

SelectVoteResettingToHeaviest(heaviest_bank, heaviest_bank_on_same_voted_fork, progress_, switch_fork_decision) ==
  LET stats == progress_[heaviest_bank]
      propagation_confirmed ==
        stats.is_leader_slot \/ is_propagated(progress_, heaviest_bank)
      failures ==
        (IF can_vote(switch_fork_decision) THEN <<>>
         ELSE <<<<"FailedSwitchThreshold", heaviest_bank>>>>)
          \o (IF stats.is_locked_out THEN <<<<"LockedOut", heaviest_bank>>>> ELSE <<>>)
          \o (IF ~stats.vote_threshold THEN <<<<"FailedThreshold", heaviest_bank>>>> ELSE <<>>)
          \o (IF ~propagation_confirmed
              THEN <<<<"NoPropagatedConfirmation", heaviest_bank>>>> ELSE <<>>)
  IN [ vote_bank |-> IF failures = <<>> THEN heaviest_bank ELSE NoSlot,
       reset_bank |-> heaviest_bank,
       heaviest_fork_failures |-> failures ]

SelectVoteNotRecordingPropagation(heaviest_bank, heaviest_bank_on_same_voted_fork, progress_, switch_fork_decision) ==
  LET selected_fork ==
        IF switch_fork_decision = "FailedSwitchThreshold"
        THEN heaviest_bank_on_same_voted_fork ELSE heaviest_bank
      failure_reasons ==
        IF can_vote(switch_fork_decision) THEN <<>>
        ELSE <<<<"FailedSwitchThreshold", heaviest_bank>>>>
  IN IF selected_fork = NoSlot
     THEN [vote_bank |-> NoSlot, reset_bank |-> NoSlot,
           heaviest_fork_failures |-> failure_reasons]
     ELSE
       LET stats == progress_[selected_fork]
           propagation_confirmed ==
             stats.is_leader_slot \/ is_propagated(progress_, selected_fork)
           failures ==
             failure_reasons
               \o (IF stats.is_locked_out THEN <<<<"LockedOut", selected_fork>>>> ELSE <<>>)
               \o (IF ~stats.vote_threshold
                   THEN <<<<"FailedThreshold", selected_fork>>>> ELSE <<>>)
       IN [ vote_bank |-> IF failures = <<>> /\ propagation_confirmed
                          THEN selected_fork ELSE NoSlot,
            reset_bank |-> selected_fork,
            heaviest_fork_failures |-> failures ]

SelectVoteWithoutPropagationCheck(heaviest_bank, heaviest_bank_on_same_voted_fork, progress_, switch_fork_decision) ==
  LET selected_fork ==
        IF switch_fork_decision = "FailedSwitchThreshold"
        THEN heaviest_bank_on_same_voted_fork ELSE heaviest_bank
      failure_reasons ==
        IF can_vote(switch_fork_decision) THEN <<>>
        ELSE <<<<"FailedSwitchThreshold", heaviest_bank>>>>
  IN IF selected_fork = NoSlot
     THEN [vote_bank |-> NoSlot, reset_bank |-> NoSlot,
           heaviest_fork_failures |-> failure_reasons]
     ELSE
       LET stats == progress_[selected_fork]
           failures ==
             failure_reasons
               \o (IF stats.is_locked_out THEN <<<<"LockedOut", selected_fork>>>> ELSE <<>>)
               \o (IF ~stats.vote_threshold
                   THEN <<<<"FailedThreshold", selected_fork>>>> ELSE <<>>)
       IN IF /\ ~stats.is_locked_out
             /\ stats.vote_threshold
             /\ can_vote(switch_fork_decision)
          THEN [vote_bank |-> selected_fork, reset_bank |-> selected_fork,
                heaviest_fork_failures |-> failures]
          ELSE [vote_bank |-> NoSlot, reset_bank |-> selected_fork,
                heaviest_fork_failures |-> failures]

\* select_vote_and_reset_forks, given the decision of
\* Tower::check_switch_threshold: the SelectVoteAndResetForkResult, a failure
\* being the pair of its kind and its slot.
select_vote_and_reset_forks(heaviest_bank, heaviest_bank_on_same_voted_fork, progress_, switch_fork_decision) ==
  LET selected_fork ==
        CASE switch_fork_decision = "FailedSwitchThreshold" ->
               heaviest_bank_on_same_voted_fork
          [] switch_fork_decision = "FailedSwitchDuplicateRollback" -> heaviest_bank
          [] OTHER -> heaviest_bank
      failure_reasons ==
        IF switch_fork_decision \in {"FailedSwitchThreshold", "FailedSwitchDuplicateRollback"}
        THEN <<<<"FailedSwitchThreshold", heaviest_bank>>>>
        ELSE <<>>
  IN IF selected_fork = NoSlot
     THEN [vote_bank |-> NoSlot, reset_bank |-> NoSlot,
           heaviest_fork_failures |-> failure_reasons]
     ELSE
       LET stats == progress_[selected_fork]
           propagation_confirmed ==
             stats.is_leader_slot \/ is_propagated(progress_, selected_fork)
           failures ==
             failure_reasons
               \o (IF stats.is_locked_out THEN <<<<"LockedOut", selected_fork>>>> ELSE <<>>)
               \o (IF ~stats.vote_threshold
                   THEN <<<<"FailedThreshold", selected_fork>>>> ELSE <<>>)
               \o (IF ~propagation_confirmed
                   THEN <<<<"NoPropagatedConfirmation", selected_fork>>>> ELSE <<>>)
       IN IF /\ ~stats.is_locked_out
             /\ stats.vote_threshold
             /\ propagation_confirmed
             /\ can_vote(switch_fork_decision)
          THEN [vote_bank |-> selected_fork, reset_bank |-> selected_fork,
                heaviest_fork_failures |-> failures]
          ELSE [vote_bank |-> NoSlot, reset_bank |-> selected_fork,
                heaviest_fork_failures |-> failures]

select_stage ==
  /\ UNCHANGED <<pe, exec_log, call>>
  /\ UNCHANGED gossip_vars
  /\ UNCHANGED loop_vars
  /\ UNCHANGED leader_vars
  /\ UNCHANGED vote_channel_vars
  /\ pc = "select"
  /\ LET on_voted_fork == leaves_on_voted_fork(fork_choice, banks, tower)
     IN \E heaviest_bank \in fork_choice_leaves(fork_choice, banks),
           same \in on_voted_fork \cup {NoSlot},
           hash_valid \in BOOLEAN, refreshed_recently \in BOOLEAN, can_sign \in BOOLEAN :
          /\ (same = NoSlot) = (on_voted_fork = {})
          /\ (heaviest_bank \in on_voted_fork) => (same = heaviest_bank)
          /\ LET landed == IF same = NoSlot THEN NoSlot
                           ELSE progress[same].my_latest_landed_vote
                 refreshable == landed # NoSlot /\ landed < last_voted_slot(tower)
                 r == IF landed = NoSlot
                      THEN [tower |-> tower, trace |-> trace]
                      ELSE refresh_last_vote(tower, saved_tower, trace, same, landed,
                                             hash_valid, refreshed_recently, can_sign)
             IN /\ refreshable \/ (hash_valid /\ ~refreshed_recently /\ can_sign)
                /\ (hash_valid \/ refreshed_recently) => can_sign
                /\ tower' = r.tower
                /\ trace' = r.trace
                /\ \E decision \in SwitchDecisions(tower, banks, duplicate_slots_tracker,
                                                   heaviest_bank) :
                     LET res == select_vote_and_reset_forks(heaviest_bank, same,
                                                            progress, decision)
                     IN selected' = [ heaviest_bank |-> heaviest_bank,
                                      heaviest_bank_on_same_voted_fork |-> same,
                                      vote_bank |-> res.vote_bank,
                                      reset_bank |-> res.reset_bank,
                                      switch_fork_decision |-> decision,
                                      ancestors |-> AncestorsMap(banks) ]
  /\ pc' = "vote"
  /\ UNCHANGED <<banks, root, progress, fork_choice, duplicate_slots_tracker,
                 dead_slots, blockstore_slots, blockstore_roots,
                 leader_schedule_root, saved_tower, replay_results>>

(***************************************************************************)
(* Stage 6: handle_votable_bank.  The handler's steps act in turn on a     *)
(* record of the state they touch; Emit notes an effect in the trace.      *)
(***************************************************************************)
Emit(st, name, slot) ==
  [st EXCEPT !.trace = Append(@, Ev(name, slot, st.tower, st.saved_tower, st.root,
                                    st.fork_choice.root[1], st.leader_schedule_root))]

HandleNewRootKeepingAll(st, new_root, highest_confirmed_root) ==
  LET s1 == Emit([st EXCEPT !.root = new_root], "bank_forks.set_root", new_root)
      s2 == Emit(s1, "progress.handle_new_root", new_root)
      s3 == Emit([s2 EXCEPT !.fork_choice =
                    fork_choice_set_root(@, <<new_root, bank_hash_of(s2.banks, new_root)>>,
                                         s2.banks)],
                 "fork_choice.set_root", new_root)
  IN s3

HandleNewRootProgressFirst(st, new_root, highest_confirmed_root) ==
  LET s0 == [st EXCEPT !.progress = ProgressMap_handle_new_root(@, st.banks)]
      s1 == Emit([s0 EXCEPT
                    !.banks = BankForks_set_root(@, new_root, highest_confirmed_root),
                    !.root = new_root],
                 "bank_forks.set_root", new_root)
      s2 == Emit(s1, "progress.handle_new_root", new_root)
      s3 == Emit([s2 EXCEPT !.fork_choice =
                    fork_choice_set_root(@, <<new_root, bank_hash_of(s2.banks, new_root)>>,
                                         s2.banks)],
                 "fork_choice.set_root", new_root)
  IN [s3 EXCEPT
        !.duplicate_slots_tracker = {s \in @ : s >= new_root},
        !.gossip_duplicate_confirmed_slots = Restrict(@, {s \in DOMAIN @ : s >= new_root}),
        !.unfrozen_gossip_verified_vote_hashes =
          UnfrozenGossipVerifiedVoteHashes_set_root(@, new_root)]

\* handle_new_root.
handle_new_root(st, new_root, highest_confirmed_root) ==
  LET s1 == Emit([st EXCEPT
                    !.banks = BankForks_set_root(@, new_root, highest_confirmed_root),
                    !.root = new_root],
                 "bank_forks.set_root", new_root)
      s2 == Emit([s1 EXCEPT !.progress = ProgressMap_handle_new_root(@, s1.banks)],
                 "progress.handle_new_root", new_root)
      s3 == Emit([s2 EXCEPT !.fork_choice =
                    fork_choice_set_root(@, <<new_root, bank_hash_of(s2.banks, new_root)>>,
                                         s2.banks)],
                 "fork_choice.set_root", new_root)
  IN [s3 EXCEPT
        !.duplicate_slots_tracker = {s \in @ : s >= new_root},
        !.gossip_duplicate_confirmed_slots = Restrict(@, {s \in DOMAIN @ : s >= new_root}),
        !.unfrozen_gossip_verified_vote_hashes =
          UnfrozenGossipVerifiedVoteHashes_set_root(@, new_root)]

TowerSaveFailureIgnored(st, save_ok) ==
  IF save_ok
  THEN Emit([st EXCEPT !.saved_tower = st.tower], "tower.save", last_voted_slot(st.tower))
  ELSE st

\* tower.save, and std::process::exit(1) when it fails.
tower_save(st, save_ok) ==
  IF save_ok
  THEN Emit([st EXCEPT !.saved_tower = st.tower], "tower.save", last_voted_slot(st.tower))
  ELSE [st EXCEPT !.exited = TRUE]

NotifyBeforeNewRoot(st, new_root, highest_confirmed_root) ==
  LET rooted_slots == Ancestors(st.banks, new_root) \cup {new_root}
      s1 == Emit([st EXCEPT !.leader_schedule_root = new_root],
                 "leader_schedule_cache.set_root", new_root)
      s2 == Emit(Emit([s1 EXCEPT !.blockstore_roots = @ \cup rooted_slots],
                      "blockstore.set_roots", new_root),
                 "highest_confirmed_root", highest_confirmed_root)
      s3 == Emit(s2, "notify_roots", new_root)
      s4 == handle_new_root(s3, new_root, highest_confirmed_root)
      s5 == Emit(s4, "BankNotification::Root", new_root)
  IN Emit(s5, "latest_root_senders", new_root)

\* The body of `if let Some(new_root) = new_root`.
set_new_root(st, new_root, highest_confirmed_root) ==
  LET rooted_slots == Ancestors(st.banks, new_root) \cup {new_root}
      s1 == Emit([st EXCEPT !.leader_schedule_root = new_root],
                 "leader_schedule_cache.set_root", new_root)
      s2 == Emit(Emit([s1 EXCEPT !.blockstore_roots = @ \cup rooted_slots],
                      "blockstore.set_roots", new_root),
                 "highest_confirmed_root", highest_confirmed_root)
      s3 == handle_new_root(s2, new_root, highest_confirmed_root)
      s4 == Emit(s3, "notify_roots", new_root)
      s5 == Emit(s4, "BankNotification::Root", new_root)
  IN Emit(s5, "latest_root_senders", new_root)

\* push_vote: generate_vote_tx signs Tower::last_vote with the bank's
\* blockhash, unless the authorized voter's keypair is missing.
push_vote(st, bank, can_sign) ==
  IF ~can_sign THEN st
  ELSE Emit(st, "push_vote", last_voted_slot(st.tower))

handle_votable_bank(st, bank, save_ok, highest_confirmed_root, can_sign) ==
  LET r == record_bank_vote(st.tower, bank)
      s1 == Emit([st EXCEPT !.tower = r.tower], "record_bank_vote", bank)
      s2 == tower_save(s1, save_ok)
      s3 == IF r.new_root # NoSlot
            THEN set_new_root(s2, r.new_root, highest_confirmed_root)
            ELSE s2
  IN IF s2.exited THEN s2 ELSE push_vote(s3, bank, can_sign)

\* The state handle_votable_bank works on.
VoteState ==
  [ banks |-> banks, root |-> root, progress |-> progress,
    fork_choice |-> fork_choice,
    duplicate_slots_tracker |-> duplicate_slots_tracker,
    gossip_duplicate_confirmed_slots |-> gossip_duplicate_confirmed_slots,
    unfrozen_gossip_verified_vote_hashes |-> unfrozen_gossip_verified_vote_hashes,
    blockstore_roots |-> blockstore_roots,
    leader_schedule_root |-> leader_schedule_root,
    tower |-> tower, saved_tower |-> saved_tower, trace |-> trace,
    exited |-> FALSE ]

vote_stage ==
  /\ UNCHANGED <<pe, exec_log, call>>
  /\ UNCHANGED loop_vars
  /\ UNCHANGED leader_vars
  /\ UNCHANGED vote_channel_vars
  /\ pc = "vote"
  /\ \E save_ok \in BOOLEAN, can_sign \in BOOLEAN, highest_confirmed_root \in Slots :
       LET would_root == selected.vote_bank # NoSlot
                           /\ record_bank_vote(tower, selected.vote_bank).new_root # NoSlot
           st == IF selected.vote_bank = NoSlot THEN VoteState
                 ELSE handle_votable_bank(VoteState, selected.vote_bank, save_ok,
                                          highest_confirmed_root, can_sign)
       IN \* inputs that are not consulted take one value
          /\ (selected.vote_bank = NoSlot) => (save_ok /\ can_sign)
          /\ ~save_ok => can_sign
          /\ IF would_root /\ save_ok
             THEN highest_confirmed_root
                    <= record_bank_vote(tower, selected.vote_bank).new_root
             ELSE highest_confirmed_root = 0
          /\ banks' = st.banks
          /\ root' = st.root
          /\ progress' = st.progress
          /\ fork_choice' = st.fork_choice
          /\ duplicate_slots_tracker' = st.duplicate_slots_tracker
          /\ gossip_duplicate_confirmed_slots' = st.gossip_duplicate_confirmed_slots
          /\ unfrozen_gossip_verified_vote_hashes' = st.unfrozen_gossip_verified_vote_hashes
          /\ blockstore_roots' = st.blockstore_roots
          /\ leader_schedule_root' = st.leader_schedule_root
          /\ tower' = st.tower
          /\ saved_tower' = st.saved_tower
          /\ trace' = st.trace
          /\ pc' = IF st.exited THEN "exited" ELSE "reset"
  /\ UNCHANGED <<dead_slots, blockstore_slots, replay_results, selected>>

(***************************************************************************)
(* Stage 7: the reset of block production onto the reset bank, with the    *)
(* report of a partition, and the wait for the ledger signal.              *)
(***************************************************************************)
\* `if let Some(reset_bank) = reset_bank { if last_reset != ... } }`: the
\* thread's last_reset and partition_exists after it.
reset_onto_fork(last_reset_, partition_exists_, reset_bank, heaviest_bank, tower_, ancestors) ==
  IF reset_bank = NoSlot \/ last_reset_ = last_blockhash(reset_bank)
  THEN [last_reset |-> last_reset_, partition_exists |-> partition_exists_]
  ELSE [ last_reset |-> last_blockhash(reset_bank),
         partition_exists |->
           IF last_voted_slot(tower_) = NoSlot THEN partition_exists_
           ELSE LET partition_detected ==
                      is_partition_detected(ancestors, last_voted_slot(tower_),
                                            heaviest_bank)
                IN IF ~partition_exists_ /\ partition_detected THEN TRUE
                   ELSE IF partition_exists_ /\ ~partition_detected THEN FALSE
                   ELSE partition_exists_ ]

\* The ledger signal is awaited when no bank was completed in the iteration;
\* whether one was is an input here, as is what the wait came to: a signal
\* or the timeout, or the channel found disconnected, which leaves the loop
\* and drops the thread's Finalizer.
reset_stage ==
  /\ UNCHANGED <<pe, exec_log, call>>
  /\ UNCHANGED gossip_vars
  /\ UNCHANGED leader_vars
  /\ UNCHANGED vote_channel_vars
  /\ pc = "reset"
  /\ LET r == reset_onto_fork(last_reset, partition_exists, selected.reset_bank,
                              selected.heaviest_bank, tower, selected.ancestors)
     IN /\ last_reset' = r.last_reset
        /\ partition_exists' = r.partition_exists
  /\ \E did_complete_bank \in BOOLEAN, disconnected \in BOOLEAN :
       /\ did_complete_bank => ~disconnected
       /\ IF ~did_complete_bank /\ disconnected
          THEN pc' = "disconnected" /\ exit' = Finalizer_drop(exit)
          ELSE pc' = "generate" /\ exit' = exit
  /\ selected' = NoSelection
  /\ UNCHANGED <<banks, root, progress, fork_choice, duplicate_slots_tracker,
                 dead_slots, blockstore_slots, blockstore_roots,
                 leader_schedule_root, tower, saved_tower, replay_results, trace>>

(***************************************************************************)
(* The top of the loop and the ways out of the thread.                     *)
(***************************************************************************)
\* Another thread of the validator sets the exit flag.  The loop reads the
\* flag only at the top of an iteration, so the store is placed there.
exit_requested ==
  /\ pc = "generate"
  /\ ~exit
  /\ exit' = TRUE
  /\ UNCHANGED <<pc, banks, root, progress, fork_choice, duplicate_slots_tracker,
                 dead_slots, blockstore_slots, blockstore_roots,
                 leader_schedule_root, selected, tower, saved_tower,
                 replay_results, trace, pe, exec_log, call, last_reset,
                 partition_exists>>
  /\ UNCHANGED gossip_vars
  /\ UNCHANGED leader_vars
  /\ UNCHANGED vote_channel_vars

\* `if exit.load(Ordering::Relaxed) { break; }`, and the Finalizer dropped at
\* the end of the closure.
exit_observed ==
  /\ pc = "generate"
  /\ exit
  /\ pc' = "exit_observed"
  /\ exit' = Finalizer_drop(exit)
  /\ UNCHANGED <<banks, root, progress, fork_choice, duplicate_slots_tracker,
                 dead_slots, blockstore_slots, blockstore_roots,
                 leader_schedule_root, selected, tower, saved_tower,
                 replay_results, trace, pe, exec_log, call, last_reset,
                 partition_exists>>
  /\ UNCHANGED gossip_vars
  /\ UNCHANGED leader_vars
  /\ UNCHANGED vote_channel_vars

\* A panic inside the loop, here the `.expect("Db error")` of
\* generate_new_bank_forks on a block store that fails: the stack unwinds
\* and the Finalizer is dropped.
panic_in_loop ==
  /\ pc = "generate"
  /\ ~exit
  /\ pc' = "panicked"
  /\ exit' = Finalizer_drop(exit)
  /\ UNCHANGED <<banks, root, progress, fork_choice, duplicate_slots_tracker,
                 dead_slots, blockstore_slots, blockstore_roots,
                 leader_schedule_root, selected, tower, saved_tower,
                 replay_results, trace, pe, exec_log, call, last_reset,
                 partition_exists>>
  /\ UNCHANGED gossip_vars
  /\ UNCHANGED leader_vars
  /\ UNCHANGED vote_channel_vars

\* The replay thread has returned or unwound.
thread_terminated == pc \in {"exit_observed", "disconnected", "panicked"}

\* One iteration of the loop body is one pass through the stages.
Next ==
  \/ generate_new_bank_forks
  \/ replay_active_banks
  \/ process_duplicate_slots
  \/ compute_stage
  \/ select_stage
  \/ vote_stage
  \/ reset_stage
  \/ exit_requested
  \/ exit_observed
  \/ panic_in_loop

Spec == Init /\ [][Next]_vars

(***************************************************************************)
(* Properties of the replay loop.                                          *)
(***************************************************************************)
Sent(e) == e.ev \in {"push_vote", "refresh_vote"}

\* C1: every vote transaction that is transmitted, by push_vote in
\* handle_votable_bank or by refresh_last_vote, goes out only when the saved
\* Tower is the Tower holding that vote; and when the save fails the process
\* exits with no transmission of the vote just recorded.
C1_VoteSentOnlyAfterTowerSaved ==
  /\ \A i \in 1..Len(trace) :
       Sent(trace[i]) =>
         /\ trace[i].slot # NoSlot
         /\ trace[i].tower_saved
         /\ trace[i].saved_vote = trace[i].slot
         /\ trace[i].tower_vote = trace[i].slot
  /\ pc = "exited" =>
       /\ tower # saved_tower
       /\ \A i \in 1..Len(trace) :
            Sent(trace[i]) => trace[i].slot # last_voted_slot(tower)

\* A vote was recorded, saved and then pushed in this iteration.
C1_Witness ==
  \E i, j \in 1..Len(trace) :
    /\ i < j
    /\ trace[i].ev = "tower.save"
    /\ trace[j].ev = "push_vote"
    /\ trace[j].slot = last_voted_slot(saved_tower)

\* C2: between the stages of the loop the fork-choice root is the BankForks
\* root, slot and hash, and every block in fork choice is a frozen bank of
\* BankForks under its frozen hash.
C2_ForkChoiceAgreesWithBankForks ==
  /\ fork_choice.root = <<root, bank_hash_of(banks, root)>>
  /\ fork_choice.root \in fork_choice.nodes
  /\ \A k \in fork_choice.nodes :
       /\ k[1] \in DOMAIN banks
       /\ banks[k[1]].frozen
       /\ k[2] = FrozenHash(k[1])

\* The root has advanced and fork choice holds the root and a fork of two
\* more blocks.
C2_Witness ==
  /\ root > 0
  /\ Cardinality(fork_choice.nodes) >= 3

\* The highest confirmed root handle_votable_bank read in this iteration.
HighestConfirmedRootRead(trace_) ==
  LET i == CHOOSE i \in 1..Len(trace_) : trace_[i].ev = "highest_confirmed_root"
  IN trace_[i].slot

\* C3 as stated: once a vote has produced the root R, every slot below R
\* that was in the progress map or in the duplicate-slot tracker is gone
\* from both.
C3_AllSlotsBelowRootRemoved ==
  [][root' # root =>
       \A s \in DOMAIN progress \cup duplicate_slots_tracker :
         s < root' => (s \notin DOMAIN progress' /\ s \notin duplicate_slots_tracker')]_vars

\* C3 as the code has it: once a vote has produced the root R, every slot
\* below R is gone from the duplicate-slot tracker, and a slot below R stays
\* in the progress map exactly when BankForks keeps its bank: when it is an
\* ancestor of R at or above the highest confirmed root.
C3_SlotsBelowRootRemovedUnlessKept ==
  [][root' # root =>
       \A s \in DOMAIN progress \cup duplicate_slots_tracker :
         s < root' =>
           /\ s \notin duplicate_slots_tracker'
           /\ s \in DOMAIN progress' <=>
                /\ s \in DOMAIN progress
                /\ s \in Ancestors(banks, root')
                /\ s >= HighestConfirmedRootRead(trace')]_vars

\* The root went to 2 in this iteration with the highest confirmed root at
\* 1: slot 1 stays in the progress map and slot 0 has left it.
C3_Witness ==
  /\ root = 2
  /\ \E i \in 1..Len(trace) : trace[i].ev = "bank_forks.set_root" /\ trace[i].slot = 2
  /\ 1 \in DOMAIN progress
  /\ 0 \notin DOMAIN progress

EventsBefore(trace_, j, name) ==
  {i \in 1..(j - 1) : trace_[i].ev = name}

\* What C4 asks of the effects of one call of handle_votable_bank.
C4_Ordered(trace_) ==
  \A j \in 1..Len(trace_) :
    LET e == trace_[j]
    IN /\ e.ev = "bank_forks.set_root" =>
            /\ EventsBefore(trace_, j, "record_bank_vote") # {}
            /\ EventsBefore(trace_, j, "tower.save") # {}
            /\ e.slot < e.tower_vote
       /\ e.ev = "blockstore.set_roots" =>
            /\ EventsBefore(trace_, j, "leader_schedule_cache.set_root") # {}
            /\ e.leader_schedule_root = e.slot
       /\ e.ev \in {"notify_roots", "BankNotification::Root", "latest_root_senders"} =>
            /\ EventsBefore(trace_, j, "bank_forks.set_root") # {}
            /\ EventsBefore(trace_, j, "progress.handle_new_root") # {}
            /\ EventsBefore(trace_, j, "fork_choice.set_root") # {}
            /\ e.bank_forks_root = e.slot
            /\ e.fork_choice_root = e.slot

\* C4: the root advances only after the vote is recorded in the Tower; the
\* leader-schedule cache takes the root before the block store marks the
\* roots; and notify_roots, the Root bank notification and the latest-root
\* senders come only after the root is applied to BankForks, the progress
\* map and fork choice.
C4_RootAdvanceOrder ==
  [][/\ C4_Ordered(trace')
     /\ root' # root =>
          \E j \in 1..Len(trace') :
            /\ trace'[j].ev = "bank_forks.set_root"
            /\ trace'[j].slot = root'
            /\ trace'[j].bank_forks_root = root']_vars

\* A root was set and announced in this iteration.
C4_Witness ==
  /\ root > 0
  /\ \E j \in 1..Len(trace) : trace[j].ev = "latest_root_senders" /\ trace[j].slot = root

\* The banks above the root that descend from it.
NonRootedBanks == {s \in DOMAIN banks : root \in Ancestors(banks, s)}

C6_IsPropagatedMonotone ==
  [][\A s \in DOMAIN progress \cap DOMAIN progress' :
       (s >= root' /\ is_propagated(progress, s)) => is_propagated(progress', s)]_vars

\* A slot above the root counts as propagated while the entry of the leader
\* slot it points back to has been pruned with the old root.
C6_Witness ==
  /\ root > 0
  /\ \E s \in DOMAIN progress :
       /\ s >= root
       /\ ~progress[s].is_leader_slot
       /\ progress[s].prev_leader_slot # NoSlot
       /\ progress[s].prev_leader_slot \notin DOMAIN progress
       /\ is_propagated(progress, s)

\* C7: is_supermajority_confirmed, once set on a slot's entry, is never
\* cleared.
C7_SupermajorityConfirmedNeverCleared ==
  [][\A s \in DOMAIN progress \cap DOMAIN progress' :
       progress[s].is_supermajority_confirmed
         => progress'[s].is_supermajority_confirmed]_vars

\* A confirmed slot has kept its flag through a root advance while a slot
\* above it is not confirmed.
C7_Witness ==
  /\ root > 0
  /\ \E s, t \in DOMAIN progress :
       /\ s < t
       /\ progress[s].is_supermajority_confirmed
       /\ ~progress[t].is_supermajority_confirmed

\* C8: for a frozen bank above the root with an entry, computed stats carry
\* the bank's own hash.
C8_ComputedHashIsBankHash ==
  \A s \in NonRootedBanks \cap DOMAIN progress :
    (banks[s].frozen /\ progress[s].computed) =>
      /\ progress[s].bank_hash = bank_hash_of(banks, s)
      /\ progress[s].bank_hash = FrozenHash(s)

\* A frozen bank above the root whose parent is frozen too has computed
\* stats.
C8_Witness ==
  \E s \in NonRootedBanks \cap DOMAIN progress :
    /\ banks[s].frozen
    /\ progress[s].computed
    /\ banks[s].parent # 0

\* C9: a bank whose replay fails is marked dead in the progress map and in
\* the block store, its entry stays in the map, and the loop goes on: the
\* other banks of the same call are replayed, and frozen when complete.
C9_ReplayErrorMarksDead ==
  /\ \A s \in DOMAIN replay_results :
       /\ replay_results[s] = "err" =>
            /\ s \in DOMAIN progress
            /\ progress[s].is_dead
            /\ s \in dead_slots
            /\ ~banks[s].frozen
       /\ replay_results[s] = "complete" =>
            /\ banks[s].frozen
            /\ ~progress[s].is_dead
            /\ <<s, FrozenHash(s)>> \in fork_choice.nodes
       /\ replay_results[s] = "incomplete" =>
            /\ ~banks[s].frozen
            /\ ~progress[s].is_dead
  /\ replay_results # <<>> => pc = "duplicates"
  /\ \A s \in dead_slots \cap DOMAIN banks :
       s \in DOMAIN progress /\ progress[s].is_dead

\* One call of replay_active_banks in which one bank failed and another was
\* completed and frozen.
C9_Witness ==
  \E s, t \in DOMAIN replay_results :
    /\ replay_results[s] = "err"
    /\ replay_results[t] = "complete"
    /\ progress[s].is_dead
    /\ banks[t].frozen

(***************************************************************************)
(* process_entries_with_callback (blockstore_processor.rs): the entries of *)
(* one block, applied to one bank.  The loop over the entries is one       *)
(* thread; execute_batches runs the buffered batches on the worker pool,   *)
(* where each batch executes its transactions in turn and the batches      *)
(* interleave freely.                                                      *)
(***************************************************************************)
\* Entries applied by one call.
MaxEntries == 3
\* bank.ticks_per_slot(): a tick that brings the tick height to a multiple
\* of it is a block boundary.
TicksPerSlot == 2

Accounts == {"a", "b"}

\* A transaction is the set of accounts it locks.  An entry is a tick, or
\* one or two transactions in the order they are run (`randomize` shuffles
\* them before they are locked, so every order is an input).
Transactions == {{x} : x \in Accounts}
TickEntry == [tick |-> TRUE, txs |-> <<>>]
EntryKinds ==
  {TickEntry}
    \cup {[tick |-> FALSE, txs |-> <<t>>] : t \in Transactions}
    \cup {[tick |-> FALSE, txs |-> <<t, u>>] : t \in Transactions, u \in Transactions}

EntryAccounts(entry) == UNION {entry.txs[i] : i \in 1..Len(entry.txs)}

\* The accounts locked by the batches in the buffer.
LockedAccounts(pe_) ==
  UNION {EntryAccounts(pe_.entries[pe_.batches[i]]) : i \in 1..Len(pe_.batches)}

\* first_err(batch.lock_results()).is_ok() for bank.prepare_hashed_batch:
\* every transaction of the entry takes its locks, in turn.
lock_ok(pe_, entry) ==
  /\ EntryAccounts(entry) \cap LockedAccounts(pe_) = {}
  /\ \A i, j \in 1..Len(entry.txs) : i # j => entry.txs[i] \cap entry.txs[j] = {}

\* bank.is_block_boundary.
is_block_boundary(tick_height) == tick_height % TicksPerSlot = 0

\* The call of execute_batches: every buffered batch is handed to the pool.
start_execute_batches(pe_, then) ==
  [pe_ EXCEPT !.pc = "executing", !.then = then, !.failed_batches = {},
              !.running = [i \in 1..Len(pe_.batches) |-> [tx |-> 1, busy |-> FALSE]]]

TakeTickQueueingOnly(pe_) ==
  [pe_ EXCEPT !.tick_hashes = Append(@, pe_.idx), !.idx = @ + 1]

\* The EntryType::Tick arm.
take_tick(pe_) ==
  LET pushed == [pe_ EXCEPT !.tick_hashes = Append(@, pe_.idx)]
  IN IF is_block_boundary(pe_.tick_height + Len(pushed.tick_hashes))
     THEN start_execute_batches(pushed, "tick")
     ELSE [pushed EXCEPT !.idx = @ + 1]

TakeTransactionsWithoutFlush(pe_) ==
  [pe_ EXCEPT !.batches = Append(@, pe_.idx), !.idx = @ + 1]

TakeTransactionsSkippingSelfConflict(pe_) ==
  IF lock_ok(pe_, pe_.entries[pe_.idx])
  THEN [pe_ EXCEPT !.batches = Append(@, pe_.idx), !.idx = @ + 1]
  ELSE IF pe_.batches = <<>>
  THEN [pe_ EXCEPT !.idx = @ + 1]
  ELSE start_execute_batches(pe_, "retry")

\* The EntryType::Transactions arm, one turn of its loop.
take_transactions(pe_) ==
  IF lock_ok(pe_, pe_.entries[pe_.idx])
  THEN [pe_ EXCEPT !.batches = Append(@, pe_.idx), !.idx = @ + 1]
  ELSE IF pe_.batches = <<>>
  THEN [pe_ EXCEPT !.pc = "failed"]
  ELSE start_execute_batches(pe_, "retry")

RegisterTicks(log, tick_hashes) ==
  log \o [i \in 1..Len(tick_hashes) |->
            [kind |-> "register_tick", entry |-> tick_hashes[i], tx |-> 0]]

\* The variables of the replay loop, which the entry processor leaves alone.
replay_vars ==
  <<pc, banks, root, progress, fork_choice, duplicate_slots_tracker, dead_slots,
    blockstore_slots, blockstore_roots, leader_schedule_root, selected, tower,
    saved_tower, replay_results, trace,
    gossip_duplicate_confirmed_slots, unfrozen_gossip_verified_vote_hashes, call,
    exit, last_reset, partition_exists, wait_for_vote_to_start_leader,
    has_new_vote_been_rooted, voted_signatures, poh_recorder, skipped_slots_info,
    retransmit_slots, my_votes, gossip_verified_vote_hash_receiver,
    latest_validator_votes_for_frozen_banks,
    duplicate_slots_receiver>>

\* A call of process_entries_with_callback with MaxEntries entries on a bank
\* at some tick height within its slot.
InitEntries ==
  /\ pc = "replaying"
  /\ banks = GenesisBanks
  /\ root = 0
  /\ progress = initialize_progress_and_fork_choice(GenesisBanks, 0).progress
  /\ fork_choice = initialize_progress_and_fork_choice(GenesisBanks, 0).fork_choice
  /\ duplicate_slots_tracker = {}
  /\ dead_slots = {}
  /\ blockstore_slots = {0}
  /\ blockstore_roots = {0}
  /\ leader_schedule_root = 0
  /\ selected = NoSelection
  /\ tower = EmptyTower
  /\ saved_tower = EmptyTower
  /\ replay_results = <<>>
  /\ trace = <<>>
  /\ \E entries \in [1..MaxEntries -> EntryKinds], tick_height \in 0..(TicksPerSlot - 1) :
       pe = [NoEntries EXCEPT !.entries = entries, !.pc = "next",
                              !.tick_height = tick_height]
  /\ exec_log = <<>>
  /\ gossip_duplicate_confirmed_slots = <<>>
  /\ unfrozen_gossip_verified_vote_hashes = {}
  /\ call = NoCall
  /\ InitLoop
  /\ InitLeader(FALSE)
  /\ InitVoteChannel

\* One turn of `for entry in entries`.
pe_next_entry ==
  /\ pe.pc = "next"
  /\ pe.idx <= Len(pe.entries)
  /\ pe' = IF pe.entries[pe.idx].tick THEN take_tick(pe) ELSE take_transactions(pe)
  /\ UNCHANGED exec_log
  /\ UNCHANGED replay_vars

\* After the last entry: the final execute_batches.
pe_end_of_entries ==
  /\ pe.pc = "next"
  /\ pe.idx > Len(pe.entries)
  /\ pe' = start_execute_batches(pe, "end")
  /\ UNCHANGED exec_log
  /\ UNCHANGED replay_vars

\* A pool thread begins the next transaction of its batch
\* (load_execute_and_commit_transactions, transaction by transaction).
pe_begin_tx ==
  /\ pe.pc = "executing"
  /\ \E b \in 1..Len(pe.batches) :
       /\ ~pe.running[b].busy
       /\ pe.running[b].tx <= Len(pe.entries[pe.batches[b]].txs)
       /\ pe' = [pe EXCEPT !.running[b].busy = TRUE]
       /\ exec_log' = Append(exec_log, [kind |-> "begin", entry |-> pe.batches[b],
                                        tx |-> pe.running[b].tx])
  /\ UNCHANGED replay_vars

\* The transaction finishes, with or without an error in its
\* fee_collection_results.
pe_finish_tx ==
  /\ pe.pc = "executing"
  /\ \E b \in 1..Len(pe.batches), ok \in BOOLEAN :
       /\ pe.running[b].busy
       /\ pe' = [pe EXCEPT !.running[b] = [tx |-> @.tx + 1, busy |-> FALSE],
                           !.failed_batches = IF ok THEN @ ELSE @ \cup {b}]
       /\ exec_log' = Append(exec_log, [kind |-> "end", entry |-> pe.batches[b],
                                        tx |-> pe.running[b].tx])
  /\ UNCHANGED replay_vars

\* execute_batches returns once every batch is through: an error ends the
\* call (`?`); otherwise the buffer is cleared, which drops the locks, and
\* the caller goes on: it registers the ticks, retries the entry that did
\* not lock, or is done.
pe_execute_batches_returns ==
  /\ pe.pc = "executing"
  /\ \A b \in 1..Len(pe.batches) :
       ~pe.running[b].busy /\ pe.running[b].tx > Len(pe.entries[pe.batches[b]].txs)
  /\ IF pe.failed_batches # {}
     THEN /\ pe' = [pe EXCEPT !.pc = "failed", !.running = <<>>]
          /\ UNCHANGED exec_log
     ELSE LET cleared == [pe EXCEPT !.batches = <<>>, !.running = <<>>, !.then = "none"]
              ticked == [cleared EXCEPT !.tick_height = @ + Len(pe.tick_hashes),
                                        !.tick_hashes = <<>>]
          IN CASE pe.then = "retry" ->
                    /\ pe' = [cleared EXCEPT !.pc = "next"]
                    /\ UNCHANGED exec_log
               [] pe.then = "tick" ->
                    /\ pe' = [ticked EXCEPT !.pc = "next", !.idx = @ + 1]
                    /\ exec_log' = RegisterTicks(exec_log, pe.tick_hashes)
               [] OTHER ->
                    /\ pe' = [ticked EXCEPT !.pc = "done"]
                    /\ exec_log' = RegisterTicks(exec_log, pe.tick_hashes)
  /\ UNCHANGED replay_vars

NextEntries ==
  \/ pe_next_entry
  \/ pe_end_of_entries
  \/ pe_begin_tx
  \/ pe_finish_tx
  \/ pe_execute_batches_returns

SpecEntries == InitEntries /\ [][NextEntries]_vars

(***************************************************************************)
(* Properties of the entry processor.                                      *)
(***************************************************************************)
\* Every transaction of entry e has finished within the first n events.
EntryFinishedBy(e, n) ==
  \A t \in 1..Len(pe.entries[e].txs) :
    \E p \in 1..n : exec_log[p] = [kind |-> "end", entry |-> e, tx |-> t]

Conflict(e1, e2) ==
  EntryAccounts(pe.entries[e1]) \cap EntryAccounts(pe.entries[e2]) # {}

\* C10 as stated: within one block every transaction of an entry has
\* finished executing before any transaction of a later entry begins.
C10_EntriesNeverOverlap ==
  \A q \in 1..Len(exec_log) :
    exec_log[q].kind = "begin" =>
      \A e \in 1..(exec_log[q].entry - 1) : EntryFinishedBy(e, q - 1)

\* C10 as the code has it: entries are taken in file order, and every
\* transaction of an entry has finished executing before any transaction of
\* a later entry that locks one of the same accounts begins; entries whose
\* locks are disjoint are buffered together and may overlap on the pool.
C10_ConflictingEntriesNeverOverlap ==
  /\ \A q \in 1..Len(exec_log) :
       exec_log[q].kind = "begin" =>
         \A e \in 1..(exec_log[q].entry - 1) :
           Conflict(e, exec_log[q].entry) => EntryFinishedBy(e, q - 1)
  /\ \A i, j \in 1..Len(pe.batches) : i < j => pe.batches[i] < pe.batches[j]
  /\ \A i \in 1..Len(pe.batches) : pe.batches[i] < pe.idx

\* Two entries with disjoint locks overlapped, and a third that conflicts
\* with them began after both had finished.
C10_Witness ==
  \E p, q, r \in 1..Len(exec_log) :
    /\ p < q /\ q < r
    /\ exec_log[p].kind = "begin" /\ exec_log[q].kind = "begin"
    /\ exec_log[p].entry # exec_log[q].entry
    /\ ~EntryFinishedBy(exec_log[p].entry, q)
    /\ exec_log[r].kind = "begin"
    /\ Conflict(exec_log[p].entry, exec_log[r].entry)
    /\ exec_log[r].entry > exec_log[p].entry
    /\ exec_log[r].entry > exec_log[q].entry


(***************************************************************************)
(* Single calls.  A function of the replay stage or of the ledger          *)
(* processor is applied to arguments drawn from bounded sets: `call` holds *)
(* the arguments and, once the function has returned, its result.          *)
(***************************************************************************)
\* The fork trees on the slots 0..MaxSlot in which every block is frozen:
\* the parent of a slot is any lower slot.
FrozenTrees ==
  {[s \in Slots |-> [parent |-> IF s = 0 THEN NoSlot ELSE p[s], frozen |-> TRUE]] :
     p \in {q \in [1..MaxSlot -> Slots] : \A s \in 1..MaxSlot : q[s] < s}}

\* The hashes gossip may report as duplicate-confirmed for the slots of S.
FrozenHashes(S) == [s \in S |-> FrozenHash(s)]

\* A replay stage rooted at slot 0 that has replayed and frozen a fork tree,
\* about to set a new root: a block above the root, with the highest
\* confirmed root anywhere up to it (or unknown).
InitHandleNewRoot ==
  /\ banks \in FrozenTrees
  /\ root = 0
  /\ progress = initialize_progress_and_fork_choice(banks, 0).progress
  /\ fork_choice = initialize_progress_and_fork_choice(banks, 0).fork_choice
  /\ duplicate_slots_tracker \in SUBSET (1..MaxSlot)
  /\ \E S \in SUBSET (1..2) : gossip_duplicate_confirmed_slots = FrozenHashes(S)
  /\ unfrozen_gossip_verified_vote_hashes
       \in SUBSET {<<s, FrozenHash(s), "v1">> : s \in 2..MaxSlot}
  /\ \E new_root \in 1..MaxSlot, highest_confirmed_root \in Slots \cup {NoSlot} :
       /\ highest_confirmed_root <= new_root
       /\ call = [fn |-> "handle_new_root", new_root |-> new_root,
                  highest_confirmed_root |-> highest_confirmed_root, applied |-> 0]

\* handle_new_root for the root and highest confirmed root of the call,
\* applied once and then once more.
call_handle_new_root ==
  /\ UNCHANGED loop_vars
  /\ UNCHANGED leader_vars
  /\ UNCHANGED vote_channel_vars
  /\ pc = "call"
  /\ call.fn = "handle_new_root"
  /\ call.applied < 2
  /\ LET st == handle_new_root(VoteState, call.new_root, call.highest_confirmed_root)
     IN /\ banks' = st.banks
        /\ root' = st.root
        /\ progress' = st.progress
        /\ fork_choice' = st.fork_choice
        /\ duplicate_slots_tracker' = st.duplicate_slots_tracker
        /\ gossip_duplicate_confirmed_slots' = st.gossip_duplicate_confirmed_slots
        /\ unfrozen_gossip_verified_vote_hashes' = st.unfrozen_gossip_verified_vote_hashes
        /\ trace' = st.trace
  /\ call' = [call EXCEPT !.applied = @ + 1]
  /\ UNCHANGED <<pc, dead_slots, blockstore_slots, blockstore_roots,
                 leader_schedule_root, selected, tower, saved_tower,
                 replay_results, pe, exec_log>>

\* The replay stage as constructed, for the calls that do not touch it.
ReplayAtGenesis ==
  /\ banks = GenesisBanks
  /\ root = 0
  /\ progress = initialize_progress_and_fork_choice(GenesisBanks, 0).progress
  /\ fork_choice = initialize_progress_and_fork_choice(GenesisBanks, 0).fork_choice
  /\ duplicate_slots_tracker = {}
  /\ gossip_duplicate_confirmed_slots = <<>>
  /\ unfrozen_gossip_verified_vote_hashes = {}

\* Everything but `call`.
call_rest ==
  <<pc, banks, root, progress, fork_choice, duplicate_slots_tracker, dead_slots,
    blockstore_slots, blockstore_roots, leader_schedule_root, selected, tower,
    saved_tower, replay_results, trace, pe, exec_log,
    gossip_duplicate_confirmed_slots, unfrozen_gossip_verified_vote_hashes,
    exit, last_reset, partition_exists, wait_for_vote_to_start_leader,
    has_new_vote_been_rooted, voted_signatures, poh_recorder, skipped_slots_info,
    retransmit_slots, my_votes, gossip_verified_vote_hash_receiver,
    latest_validator_votes_for_frozen_banks,
    duplicate_slots_receiver>>

\* The ancestors of a frozen fork tree, whole or with entries missing, a last
\* voted slot in the tree or beyond it, and a heaviest slot.
InitIsPartitionDetected ==
  \E tree \in FrozenTrees, D \in SUBSET Slots,
     last_voted_slot_ \in 0..(MaxSlot + 1), heaviest_slot \in Slots :
    call = [fn |-> "is_partition_detected",
            ancestors |-> Restrict(AncestorsMap(tree), D),
            last_voted_slot |-> last_voted_slot_,
            heaviest_slot |-> heaviest_slot,
            done |-> FALSE, result |-> FALSE]

call_is_partition_detected ==
  /\ pc = "call"
  /\ call.fn = "is_partition_detected"
  /\ ~call.done
  /\ call' = [call EXCEPT
                !.done = TRUE,
                !.result = is_partition_detected(call.ancestors, call.last_voted_slot,
                                                 call.heaviest_slot)]
  /\ UNCHANGED call_rest

\* PoH slots are 0..MaxPohSlot.
MaxPohSlot == 9

\* A PoH slot and the slot of the last retransmit, itself a PoH slot seen
\* earlier (0 before the first).
InitShouldRetransmit ==
  \E poh_slot \in 0..MaxPohSlot, last_retransmit_slot \in 0..MaxPohSlot :
    call = [fn |-> "should_retransmit", poh_slot |-> poh_slot,
            last_retransmit_slot |-> last_retransmit_slot,
            done |-> FALSE, result |-> FALSE,
            last_retransmit_slot_after |-> last_retransmit_slot]

call_should_retransmit ==
  /\ pc = "call"
  /\ call.fn = "should_retransmit"
  /\ ~call.done
  /\ LET r == should_retransmit(call.poh_slot, call.last_retransmit_slot)
     IN call' = [call EXCEPT !.done = TRUE, !.result = r.result,
                             !.last_retransmit_slot_after = r.last_retransmit_slot]
  /\ UNCHANGED call_rest

\* Most stake voted at one slot.
MaxVotedStake == 2

\* A frozen fork tree with some stake voted at each slot.
InitSelectForks ==
  \E tree \in FrozenTrees, stake_voted_at \in [Slots -> 0..MaxVotedStake] :
    call = [fn |-> "select_forks", banks |-> tree, stake_voted_at |-> stake_voted_at,
            done |-> FALSE, heaviest_bank |-> NoSlot]

\* select_forks, as far as the heaviest bank.
call_select_forks ==
  /\ pc = "call"
  /\ call.fn = "select_forks"
  /\ ~call.done
  /\ call' = [call EXCEPT !.done = TRUE,
                          !.heaviest_bank = best_slot(call.banks, call.stake_voted_at, 0)]
  /\ UNCHANGED call_rest

\* clock::MAX_PROCESSING_AGE, in blocks.
MAX_PROCESSING_AGE == 150

MAX_VOTE_REFRESH_INTERVAL_MILLIS == 5000

\* Bank::check_hash_age: whether the blockhash is at most max_age blocks old
\* in the bank's queue of recent blockhashes, "None" for a hash the queue does
\* not hold.  The hash is given by its age in the queue, NoSlot when absent.
check_hash_age(age, max_age) ==
  IF age = NoSlot THEN "None" ELSE IF age <= max_age THEN "Some(true)" ELSE "Some(false)"

\* Ages of the last vote's blockhash and times since the last refresh, on
\* both sides of the two limits.
HashAges == {NoSlot, 0, MAX_PROCESSING_AGE, MAX_PROCESSING_AGE + 1}
ElapsedMillis == {0, MAX_VOTE_REFRESH_INTERVAL_MILLIS - 1, MAX_VOTE_REFRESH_INTERVAL_MILLIS,
                  MAX_VOTE_REFRESH_INTERVAL_MILLIS + 1}

\* A Tower without a vote or with a last vote, a latest landed vote, the
\* last vote's blockhash at some age in the bank, the last refresh some time
\* ago (last_refresh_time is 0 and `now` the time elapsed), and whether the
\* authorized voter's keypair is at hand.
InitRefreshLastVote ==
  \E voted \in {NoSlot} \cup 1..(MaxSlot - 1), my_latest_landed_vote \in Slots,
     age \in HashAges, now \in ElapsedMillis, can_sign \in BOOLEAN :
    call = [fn |-> "refresh_last_vote",
            tower |-> IF voted = NoSlot THEN EmptyTower
                      ELSE record_bank_vote(EmptyTower, voted).tower,
            heaviest_bank_on_same_fork |-> MaxSlot,
            my_latest_landed_vote |-> my_latest_landed_vote,
            last_vote_tx_blockhash_age |-> age,
            last_vote_tx_blockhash |-> IF voted = NoSlot THEN DefaultHash
                                       ELSE last_blockhash(voted),
            last_refresh_time |-> 0,
            now |-> now,
            can_sign |-> can_sign,
            done |-> FALSE,
            emitted |-> FALSE,
            last_vote_tx_blockhash_after |-> NoHash,
            last_refresh_time_after |-> NoSlot]

\* refresh_last_vote with the two tests of line 1530-1535 computed as the
\* code computes them; a vote transaction sent shows as an effect in the
\* trace, and with it the Tower takes the bank's blockhash and the time of
\* the refresh is noted.
call_refresh_last_vote ==
  /\ pc = "call"
  /\ call.fn = "refresh_last_vote"
  /\ ~call.done
  /\ LET hash_valid ==
           check_hash_age(call.last_vote_tx_blockhash_age, MAX_PROCESSING_AGE) = "Some(true)"
         refreshed_recently ==
           call.now - call.last_refresh_time < MAX_VOTE_REFRESH_INTERVAL_MILLIS
         r == refresh_last_vote(call.tower, call.tower, <<>>,
                                call.heaviest_bank_on_same_fork,
                                call.my_latest_landed_vote, hash_valid,
                                refreshed_recently, call.can_sign)
         sent == r.trace # <<>>
     IN call' = [call EXCEPT
                   !.done = TRUE,
                   !.emitted = sent,
                   !.last_vote_tx_blockhash_after =
                     IF sent THEN last_blockhash(call.heaviest_bank_on_same_fork)
                     ELSE call.last_vote_tx_blockhash,
                   !.last_refresh_time_after =
                     IF sent THEN call.now ELSE call.last_refresh_time]
  /\ UNCHANGED call_rest

(***************************************************************************)
(* blockstore_processor: supermajority_root_from_vote_accounts.  A vote    *)
(* account is [root_slot, stake], root_slot NoSlot for a vote state        *)
(* without a root (or one that cannot be read).                            *)
(***************************************************************************)
AboveHalfOfEpochStake(total, total_epoch_stake_) == 2 * total > total_epoch_stake_

\* `total as f64 / total_epoch_stake as f64 > VOTE_THRESHOLD_SIZE`, with
\* VOTE_THRESHOLD_SIZE = 2f64 / 3f64.  For the stakes used here the u64 to
\* f64 conversions are exact and the quotient compares with the constant as
\* the exact ratio compares with 2/3; a positive total over a zero epoch
\* stake is +inf.
above_vote_threshold(total, total_epoch_stake_) == 3 * total > 2 * total_epoch_stake_

RECURSIVE SupermajorityRootAtThreshold(_, _, _, _)
SupermajorityRootAtThreshold(roots, total_epoch_stake_, i, total) ==
  IF i > Len(roots) THEN NoSlot
  ELSE IF 3 * (total + roots[i][2]) >= 2 * total_epoch_stake_
       THEN roots[i][1]
       ELSE SupermajorityRootAtThreshold(roots, total_epoch_stake_, i + 1, total + roots[i][2])

\* supermajority_root: roots is sorted from the greatest root slot to the
\* smallest; the loop from its i-th element on with the stake summed so far.
RECURSIVE supermajority_root(_, _, _, _)
supermajority_root(roots, total_epoch_stake_, i, total) ==
  IF i > Len(roots) THEN NoSlot
  ELSE IF above_vote_threshold(total + roots[i][2], total_epoch_stake_)
       THEN roots[i][1]
       ELSE supermajority_root(roots, total_epoch_stake_, i + 1, total + roots[i][2])

\* The filter_map: accounts with stake and a root, as (root, stake).
RECURSIVE roots_stakes(_)
roots_stakes(vote_accounts) ==
  IF vote_accounts = <<>> THEN <<>>
  ELSE LET a == Head(vote_accounts)
           rest == roots_stakes(Tail(vote_accounts))
       IN IF a.stake = 0 \/ a.root_slot = NoSlot THEN rest
          ELSE <<<<a.root_slot, a.stake>>>> \o rest

\* sort_unstable_by on the root slot, reversed: any arrangement of the
\* elements that descends by root slot.
sort_unstable_by_root_reversed(seq) ==
  {[i \in 1..Len(seq) |-> seq[f[i]]] :
     f \in {g \in [1..Len(seq) -> 1..Len(seq)] :
              /\ \A i, j \in 1..Len(seq) : i # j => g[i] # g[j]
              /\ \A i, j \in 1..Len(seq) : i < j => seq[g[i]][1] >= seq[g[j]][1]}}

\* Most vote accounts in one call.
MaxVoteAccounts == 3

\* Root slots and stakes of the vote accounts, and total epoch stakes: with
\* them the summed stake falls below, on and above two thirds of the total.
VoteAccountRoots == {NoSlot, 3, 4, 8}
VoteAccountStakes == {0, 1, 5, 6}
TotalEpochStakes == {9, 10}

RECURSIVE VoteAccountSeqs(_)
VoteAccountSeqs(n) ==
  IF n = 0 THEN {<<>>}
  ELSE LET shorter == VoteAccountSeqs(n - 1)
       IN shorter \cup
          {Append(q, [root_slot |-> r, stake |-> s]) :
             q \in {x \in shorter : Len(x) = n - 1},
             r \in VoteAccountRoots, s \in VoteAccountStakes}

InitSupermajorityRoot ==
  \E vote_accounts \in VoteAccountSeqs(MaxVoteAccounts),
     total_epoch_stake_ \in TotalEpochStakes :
    call = [fn |-> "supermajority_root_from_vote_accounts",
            vote_accounts |-> vote_accounts,
            total_epoch_stake |-> total_epoch_stake_,
            done |-> FALSE, result |-> NoSlot]

\* supermajority_root_from_vote_accounts: None is NoSlot.
call_supermajority_root_from_vote_accounts ==
  /\ pc = "call"
  /\ call.fn = "supermajority_root_from_vote_accounts"
  /\ ~call.done
  /\ \E sorted \in sort_unstable_by_root_reversed(roots_stakes(call.vote_accounts)) :
       call' = [call EXCEPT
                  !.done = TRUE,
                  !.result = supermajority_root(sorted, call.total_epoch_stake, 1, 0)]
  /\ UNCHANGED call_rest

\* The arguments of select_vote_and_reset_forks on the tree 0 -> {1, 2}: the
\* heaviest bank is 2; the heaviest bank on the fork of the last vote is 2
\* itself when the Tower stays on its fork, 1 when 2 is on another fork, and
\* none when there is no such bank; the stats of 1 and 2 are any, and their
\* latest leader slot is 0, propagated or not, unless they are leader slots
\* themselves.
InitSelectVoteAndResetForks ==
  \E decision \in {"SameFork", "SwitchProof", "FailedSwitchThreshold",
                   "FailedSwitchDuplicateRollback"},
     same \in {NoSlot, 1, 2},
     is_locked_out \in [1..2 -> BOOLEAN], vote_threshold \in [1..2 -> BOOLEAN],
     is_leader_slot \in [1..2 -> BOOLEAN], root_is_propagated \in BOOLEAN :
    /\ (decision = "SameFork") => same \in {NoSlot, 2}
    /\ (decision # "SameFork") => same \in {NoSlot, 1}
    /\ call = [fn |-> "select_vote_and_reset_forks",
               heaviest_bank |-> 2,
               heaviest_bank_on_same_voted_fork |-> same,
               switch_fork_decision |-> decision,
               progress |->
                 [s \in 0..2 |->
                    IF s = 0
                    THEN [ForkProgress_new(0, NoSlot) EXCEPT
                            !.is_leader_slot = TRUE,
                            !.is_propagated = root_is_propagated]
                    ELSE [ForkProgress_new(s, 0) EXCEPT
                            !.is_leader_slot = is_leader_slot[s],
                            !.is_locked_out = is_locked_out[s],
                            !.vote_threshold = vote_threshold[s],
                            !.computed = TRUE]],
               done |-> FALSE,
               result |-> [vote_bank |-> NoSlot, reset_bank |-> NoSlot,
                           heaviest_fork_failures |-> <<>>]]

call_select_vote_and_reset_forks ==
  /\ pc = "call"
  /\ call.fn = "select_vote_and_reset_forks"
  /\ ~call.done
  /\ call' = [call EXCEPT
                !.done = TRUE,
                !.result = select_vote_and_reset_forks(
                             call.heaviest_bank, call.heaviest_bank_on_same_voted_fork,
                             call.progress, call.switch_fork_decision)]
  /\ UNCHANGED call_rest

\* The messages of at most MaxSignals signals each that gossip may send: a
\* signal names a slot and the hash the cluster has confirmed for it, which
\* for the slots 1..MaxDuplicate may be that of the second version.
MaxSignals == 2
MaxMessages == 2
GossipSignalSet ==
  {[slot |-> s, hash |-> h] :
     <<s, h>> \in {x \in (0..2) \X (1..(2 * MaxSlot + 2)) :
                     \/ x[2] = FrozenHash(x[1])
                     \/ x[1] \in 1..MaxDuplicate /\ x[2] = OtherVersionHash(x[1])}}

SeqsUpTo(S, n) == UNION {[1..k -> S] : k \in 0..n}

\* A replay stage rooted at slot 0 that holds the frozen chain 0, 1, .. and
\* has recorded the confirmed hash of some slots; the channel holds up to
\* MaxMessages messages.
InitProcessGossipDuplicateConfirmedSlots ==
  /\ banks \in {t \in FrozenTrees : \A s \in 1..MaxSlot : t[s].parent = s - 1}
  /\ root = 0
  /\ progress = initialize_progress_and_fork_choice(banks, 0).progress
  /\ fork_choice = initialize_progress_and_fork_choice(banks, 0).fork_choice
  /\ duplicate_slots_tracker = {}
  /\ \E S \in SUBSET (1..2) : gossip_duplicate_confirmed_slots = FrozenHashes(S)
  /\ unfrozen_gossip_verified_vote_hashes = {}
  /\ \E receiver \in SeqsUpTo(SeqsUpTo(GossipSignalSet, MaxSignals) \ {<<>>}, MaxMessages) :
       call = [fn |-> "process_gossip_duplicate_confirmed_slots",
               sent |-> receiver, before |-> gossip_duplicate_confirmed_slots,
               receiver |-> receiver, checked |-> <<>>, left |-> "no",
               done |-> FALSE]

call_process_gossip_duplicate_confirmed_slots ==
  /\ pc = "call"
  /\ call.fn = "process_gossip_duplicate_confirmed_slots"
  /\ ~call.done
  /\ LET r == process_gossip_duplicate_confirmed_slots(
                [gossip |-> gossip_duplicate_confirmed_slots,
                 tracker |-> duplicate_slots_tracker,
                 receiver |-> call.receiver, checked |-> <<>>, left |-> "no"],
                root, banks)
     IN /\ gossip_duplicate_confirmed_slots' = r.gossip
        /\ duplicate_slots_tracker' = r.tracker
        /\ call' = [call EXCEPT !.receiver = r.receiver, !.checked = r.checked,
                                !.left = r.left, !.done = TRUE]
  /\ UNCHANGED <<pc, banks, root, progress, fork_choice, dead_slots,
                 blockstore_slots, blockstore_roots, leader_schedule_root,
                 selected, tower, saved_tower, replay_results, trace, pe,
                 exec_log, unfrozen_gossip_verified_vote_hashes>>
  /\ UNCHANGED loop_vars
  /\ UNCHANGED leader_vars
  /\ UNCHANGED vote_channel_vars

\* The batches handed to one call of execute_batches.
MaxBatches == 3

\* What execute_batch may return.
BatchResults == {"Ok", "AccountInUse", "AlreadyProcessed"}

\* first_err: the first error of the slice, Ok when it holds none.
RECURSIVE first_err(_)
first_err(results) ==
  IF results = <<>> THEN "Ok"
  ELSE IF Head(results) # "Ok" THEN Head(results)
  ELSE first_err(Tail(results))

ParMapUnzipAsFinished(returned, finished) ==
  [i \in 1..Len(finished) |-> returned[finished[i]]]

\* `batches.into_par_iter().map(..).unzip()`: the results of the batches in
\* the order of the batches, whatever the order the workers finished in.
ParMapUnzip(returned, finished) == [b \in 1..Len(finished) |-> returned[b]]

\* A call of execute_batches on up to MaxBatches batches, each with the
\* result its execute_batch will return; no worker has finished.
InitExecuteBatches ==
  \E returns \in SeqsUpTo(BatchResults, MaxBatches) :
    call = [fn |-> "execute_batches", returns |-> returns, finished |-> <<>>,
            done |-> FALSE, result |-> "none"]

\* A worker of the pool finishes execute_batch for one of the batches.
call_execute_batch ==
  /\ pc = "call"
  /\ call.fn = "execute_batches"
  /\ ~call.done
  /\ \E b \in 1..Len(call.returns) :
       /\ \A i \in 1..Len(call.finished) : call.finished[i] # b
       /\ call' = [call EXCEPT !.finished = Append(@, b)]
  /\ UNCHANGED call_rest

\* Every worker is through: execute_batches returns first_err of the results.
call_execute_batches ==
  /\ pc = "call"
  /\ call.fn = "execute_batches"
  /\ ~call.done
  /\ Len(call.finished) = Len(call.returns)
  /\ call' = [call EXCEPT !.done = TRUE,
                          !.result = first_err(ParMapUnzip(call.returns, call.finished))]
  /\ UNCHANGED call_rest

(***************************************************************************)
(* confirm_slot and verify_ticks (blockstore_processor.rs).  An entry is   *)
(* a tick or carries transactions, and has a number of hashes; a bank has  *)
(* a tick height, the tick height at which its slot ends and the hashes    *)
(* every tick must hold (0: hashing is off).                               *)
(***************************************************************************)
\* Entries fetched by one call.
MaxFetched == 3
\* bank.max_tick_height() of the bank replayed.
MaxTickHeight == 2
\* bank.hashes_per_tick() when hashing is on.
HashesPerTick == 2

LedgerEntries ==
  {[is_tick |-> TRUE, num_hashes |-> 1, num_txs |-> 0],
   [is_tick |-> TRUE, num_hashes |-> HashesPerTick, num_txs |-> 0],
   [is_tick |-> FALSE, num_hashes |-> 1, num_txs |-> 1]}

ReplayedBankStates ==
  [tick_height : 0..(MaxTickHeight + 1), max_tick_height : {MaxTickHeight},
   hashes_per_tick : {0, HashesPerTick}]

\* Bank::is_complete.
is_complete(bank) == bank.tick_height = bank.max_tick_height

\* EntrySlice::tick_count.
tick_count(entries) == Cardinality({i \in 1..Len(entries) : entries[i].is_tick})

\* Sum of entries[i].num_txs.
RECURSIVE NumTxs(_)
NumTxs(entries) ==
  IF entries = <<>> THEN 0 ELSE Head(entries).num_txs + NumTxs(Tail(entries))

\* EntrySlice::verify_tick_hash_count: the hashes since the last tick are
\* counted on; every tick must bring the count to hashes_per_tick, and
\* resets it; the count left over must stay below hashes_per_tick.
RECURSIVE verify_tick_hash_count(_, _, _)
verify_tick_hash_count(entries, tick_hash_count, hashes_per_tick) ==
  IF hashes_per_tick = 0 THEN [ok |-> TRUE, tick_hash_count |-> tick_hash_count]
  ELSE IF entries = <<>>
  THEN [ok |-> tick_hash_count < hashes_per_tick, tick_hash_count |-> tick_hash_count]
  ELSE LET count == tick_hash_count + Head(entries).num_hashes
       IN IF Head(entries).is_tick
          THEN IF count # hashes_per_tick
               THEN [ok |-> FALSE, tick_hash_count |-> count]
               ELSE verify_tick_hash_count(Tail(entries), 0, hashes_per_tick)
          ELSE verify_tick_hash_count(Tail(entries), count, hashes_per_tick)

VerifyTicksFullnessFirst(bank, entries, slot_full, tick_hash_count) ==
  LET next_bank_tick_height == bank.tick_height + tick_count(entries)
      max_bank_tick_height == bank.max_tick_height
      has_trailing_entry == entries # <<>> /\ ~entries[Len(entries)].is_tick
      counted == verify_tick_hash_count(entries, tick_hash_count, bank.hashes_per_tick)
  IN IF next_bank_tick_height > max_bank_tick_height
     THEN [result |-> "TooManyTicks", tick_hash_count |-> tick_hash_count]
     ELSE IF next_bank_tick_height < max_bank_tick_height /\ slot_full
     THEN [result |-> "TooFewTicks", tick_hash_count |-> tick_hash_count]
     ELSE IF next_bank_tick_height = max_bank_tick_height /\ ~slot_full
     THEN [result |-> "InvalidLastTick", tick_hash_count |-> tick_hash_count]
     ELSE IF next_bank_tick_height = max_bank_tick_height /\ has_trailing_entry
     THEN [result |-> "TrailingEntry", tick_hash_count |-> tick_hash_count]
     ELSE IF ~counted.ok
     THEN [result |-> "InvalidTickHashCount", tick_hash_count |-> counted.tick_hash_count]
     ELSE [result |-> "Ok", tick_hash_count |-> counted.tick_hash_count]

\* verify_ticks: its result and the tick_hash_count it leaves.
verify_ticks(bank, entries, slot_full, tick_hash_count) ==
  LET next_bank_tick_height == bank.tick_height + tick_count(entries)
      max_bank_tick_height == bank.max_tick_height
      has_trailing_entry == entries # <<>> /\ ~entries[Len(entries)].is_tick
      counted == verify_tick_hash_count(entries, tick_hash_count, bank.hashes_per_tick)
  IN IF next_bank_tick_height > max_bank_tick_height
     THEN [result |-> "TooManyTicks", tick_hash_count |-> tick_hash_count]
     ELSE IF next_bank_tick_height < max_bank_tick_height /\ slot_full
     THEN [result |-> "TooFewTicks", tick_hash_count |-> tick_hash_count]
     ELSE IF next_bank_tick_height = max_bank_tick_height /\ has_trailing_entry
     THEN [result |-> "TrailingEntry", tick_hash_count |-> tick_hash_count]
     ELSE IF next_bank_tick_height = max_bank_tick_height /\ ~slot_full
     THEN [result |-> "InvalidLastTick", tick_hash_count |-> tick_hash_count]
     ELSE IF ~counted.ok
     THEN [result |-> "InvalidTickHashCount", tick_hash_count |-> counted.tick_hash_count]
     ELSE [result |-> "Ok", tick_hash_count |-> counted.tick_hash_count]

\* A batch of entries for a bank at some tick height, the slot full or not.
InitVerifyTicks ==
  \E bank \in ReplayedBankStates, entries \in SeqsUpTo(LedgerEntries, MaxFetched),
     slot_full \in BOOLEAN, tick_hash_count \in 0..(HashesPerTick - 1) :
    call = [fn |-> "verify_ticks", bank |-> bank, entries |-> entries,
            slot_full |-> slot_full, tick_hash_count |-> tick_hash_count,
            done |-> FALSE, result |-> "none",
            tick_hash_count_after |-> tick_hash_count]

call_verify_ticks ==
  /\ pc = "call"
  /\ call.fn = "verify_ticks"
  /\ ~call.done
  /\ LET r == verify_ticks(call.bank, call.entries, call.slot_full, call.tick_hash_count)
     IN call' = [call EXCEPT !.done = TRUE, !.result = r.result,
                             !.tick_hash_count_after = r.tick_hash_count]
  /\ UNCHANGED call_rest

\* The steps of confirm_slot that lie outside it and may fail.
ConfirmSlotSteps ==
  {"get_slot_entries_with_shred_info", "start_verify", "verify_and_hash_transactions",
   "process_entries_with_callback", "finish_verify"}

\* The hash of the last of n entries fetched after a cursor at last_entry.
LastEntryHash(last_entry, n) == last_entry + n

ConfirmSlotMovingCursorFirst(bank, progress_, fetched, skip_verification, failing) ==
  LET moved == [progress_ EXCEPT !.num_shreds = @ + fetched.num_shreds,
                                 !.num_entries = @ + Len(fetched.entries)]
  IN IF "get_slot_entries_with_shred_info" \in failing
     THEN [result |-> "FailedToLoadEntries", progress |-> progress_, bank |-> bank]
     ELSE IF "process_entries_with_callback" \in failing
     THEN [result |-> "InvalidTransaction", progress |-> moved, bank |-> bank]
     ELSE [result |-> "Ok",
           progress |-> [moved EXCEPT !.num_txs = @ + NumTxs(fetched.entries)],
           bank |-> [bank EXCEPT !.tick_height = @ + tick_count(fetched.entries)]]

\* confirm_slot: its result, the ConfirmationProgress and the bank it
\* leaves.  fetched is what the block store holds past the cursor: entries,
\* their number of shreds and whether the slot is full; failing is the set
\* of outside steps that fail if reached.  The bank of a failed call is
\* marked dead by the caller and not looked at again; it is left as found.
confirm_slot(bank, progress_, fetched, skip_verification, failing) ==
  LET ticks == verify_ticks(bank, fetched.entries, fetched.slot_full,
                            progress_.tick_hash_count)
      counted == IF skip_verification THEN progress_
                 ELSE [progress_ EXCEPT !.tick_hash_count = ticks.tick_hash_count]
  IN IF "get_slot_entries_with_shred_info" \in failing
     THEN [result |-> "FailedToLoadEntries", progress |-> progress_, bank |-> bank]
     ELSE IF ~skip_verification /\ ticks.result # "Ok"
     THEN [result |-> ticks.result, progress |-> counted, bank |-> bank]
     ELSE IF ~skip_verification /\ "start_verify" \in failing
     THEN [result |-> "InvalidEntryHash", progress |-> counted, bank |-> bank]
     ELSE IF "verify_and_hash_transactions" \in failing
     THEN [result |-> "InvalidEntryHash", progress |-> counted, bank |-> bank]
     ELSE IF ~skip_verification /\ "finish_verify" \in failing
     THEN [result |-> "InvalidEntryHash", progress |-> counted, bank |-> bank]
     ELSE IF "process_entries_with_callback" \in failing
     THEN [result |-> "InvalidTransaction", progress |-> counted, bank |-> bank]
     ELSE [result |-> "Ok",
           progress |-> [counted EXCEPT
                           !.num_shreds = @ + fetched.num_shreds,
                           !.num_entries = @ + Len(fetched.entries),
                           !.num_txs = @ + NumTxs(fetched.entries),
                           !.last_entry = IF fetched.entries = <<>> THEN @
                                          ELSE LastEntryHash(@, Len(fetched.entries))],
           bank |-> [bank EXCEPT !.tick_height = @ + tick_count(fetched.entries)]]

ConfirmFullSlotTrustingConfirmSlot(confirmed) == confirmed.result

\* confirm_full_slot, from what its call of confirm_slot returned.
confirm_full_slot(confirmed) ==
  IF confirmed.result # "Ok" THEN confirmed.result
  ELSE IF ~is_complete(confirmed.bank) THEN "Incomplete"
  ELSE "Ok"

\* A bank part of the way through its slot, a cursor part of the way through
\* the slot's shreds, and what the block store holds past the cursor.
InitConfirmSlot ==
  \E tick_height \in 0..MaxTickHeight, hashes_per_tick \in {0, HashesPerTick},
     entries \in SeqsUpTo(LedgerEntries, MaxFetched - 1), slot_full \in BOOLEAN,
     skip_verification \in BOOLEAN, failing \in SUBSET ConfirmSlotSteps :
    call = [fn |-> "confirm_slot",
            bank |-> [tick_height |-> tick_height, max_tick_height |-> MaxTickHeight,
                      hashes_per_tick |-> hashes_per_tick],
            progress |-> [num_shreds |-> tick_height, num_entries |-> tick_height,
                          num_txs |-> 0, last_entry |-> tick_height,
                          tick_hash_count |-> 0],
            fetched |-> [entries |-> entries, num_shreds |-> Len(entries),
                         slot_full |-> slot_full],
            skip_verification |-> skip_verification, failing |-> failing,
            done |-> FALSE, result |-> "none", full_result |-> "none",
            bank_after |-> [tick_height |-> tick_height,
                            max_tick_height |-> MaxTickHeight,
                            hashes_per_tick |-> hashes_per_tick],
            progress_after |-> [num_shreds |-> tick_height, num_entries |-> tick_height,
                                num_txs |-> 0, last_entry |-> tick_height,
                                tick_hash_count |-> 0]]

\* confirm_slot, and what confirm_full_slot makes of its return.
call_confirm_slot ==
  /\ pc = "call"
  /\ call.fn = "confirm_slot"
  /\ ~call.done
  /\ LET r == confirm_slot(call.bank, call.progress, call.fetched,
                           call.skip_verification, call.failing)
     IN call' = [call EXCEPT !.done = TRUE, !.result = r.result,
                             !.full_result = confirm_full_slot(r),
                             !.bank_after = r.bank, !.progress_after = r.progress]
  /\ UNCHANGED call_rest

InitCalls ==
  /\ pc = "call"
  /\ InitLoop
  /\ InitLeader(FALSE)
  /\ InitVoteChannel
  /\ dead_slots = {}
  /\ blockstore_slots = Slots
  /\ blockstore_roots = {0}
  /\ leader_schedule_root = 0
  /\ selected = NoSelection
  /\ tower = EmptyTower
  /\ saved_tower = EmptyTower
  /\ replay_results = <<>>
  /\ trace = <<>>
  /\ pe = NoEntries
  /\ exec_log = <<>>
  /\ \/ InitHandleNewRoot
     \/ ReplayAtGenesis /\ InitIsPartitionDetected
     \/ ReplayAtGenesis /\ InitShouldRetransmit
     \/ ReplayAtGenesis /\ InitSelectForks
     \/ ReplayAtGenesis /\ InitRefreshLastVote
     \/ ReplayAtGenesis /\ InitSupermajorityRoot
     \/ ReplayAtGenesis /\ InitSelectVoteAndResetForks
     \/ InitProcessGossipDuplicateConfirmedSlots
     \/ ReplayAtGenesis /\ InitExecuteBatches
     \/ ReplayAtGenesis /\ InitVerifyTicks
     \/ ReplayAtGenesis /\ InitConfirmSlot

NextCalls ==
  \/ call_handle_new_root
  \/ call_is_partition_detected
  \/ call_should_retransmit
  \/ call_select_forks
  \/ call_refresh_last_vote
  \/ call_supermajority_root_from_vote_accounts
  \/ call_select_vote_and_reset_forks
  \/ call_process_gossip_duplicate_confirmed_slots
  \/ call_execute_batch
  \/ call_execute_batches
  \/ call_verify_ticks
  \/ call_confirm_slot

SpecCalls == InitCalls /\ [][NextCalls]_vars

(***************************************************************************)
(* Block production: the vote signatures the loop records until one of its *)
(* votes is seen in a root bank, and maybe_start_leader.  The forks are a  *)
(* frozen tree that is given; the steps are those of the loop that touch   *)
(* the signatures, the flag and the PoH recorder's working bank.           *)
(***************************************************************************)
\* The votes signed in one run.
MaxVotes == 3

\* The leader slots of this node in the progress map.
MyLeaderSlots(progress_) == {s \in DOMAIN progress_ : progress_[s].is_leader_slot}

\* The progress map with the leader slots of P marked as propagated.
MarkPropagated(progress_, P) ==
  [s \in DOMAIN progress_ |->
     IF s \in P THEN [progress_[s] EXCEPT !.is_propagated = TRUE] ELSE progress_[s]]

\* A replay stage rooted at slot 0 that has replayed and frozen a fork tree
\* and has seen some of its leader slots propagated, each together with the
\* leader slots before it on its fork; it has signed no vote yet and the PoH
\* recorder holds no working bank.
InitLeaderStage ==
  /\ pc = "leader"
  /\ InitLoop
  /\ \E wait \in BOOLEAN : InitLeader(wait)
  /\ InitVoteChannel
  /\ banks \in FrozenTrees
  /\ root = 0
  /\ \E P \in SUBSET MyLeaderSlots(initialize_progress_and_fork_choice(banks, 0).progress) :
       /\ \A s \in P : \A a \in Ancestors(banks, s) :
            slot_leader_at(a) = "me" => a \in P
       /\ progress = MarkPropagated(initialize_progress_and_fork_choice(banks, 0).progress, P)
  /\ fork_choice = initialize_progress_and_fork_choice(banks, 0).fork_choice
  /\ duplicate_slots_tracker = {}
  /\ gossip_duplicate_confirmed_slots = <<>>
  /\ unfrozen_gossip_verified_vote_hashes = {}
  /\ dead_slots = {}
  /\ blockstore_slots = Slots
  /\ blockstore_roots = {0}
  /\ leader_schedule_root = 0
  /\ selected = NoSelection
  /\ tower = EmptyTower
  /\ saved_tower = EmptyTower
  /\ replay_results = <<>>
  /\ trace = <<>>
  /\ pe = NoEntries
  /\ exec_log = <<>>
  /\ call = NoCall

\* What the steps of block production leave alone.
leader_rest ==
  <<pc, dead_slots, blockstore_slots, blockstore_roots, leader_schedule_root,
    selected, tower, saved_tower, replay_results, pe, exec_log, call, exit,
    last_reset, partition_exists, wait_for_vote_to_start_leader,
    gossip_verified_vote_hash_receiver, latest_validator_votes_for_frozen_banks,
    duplicate_slots_receiver>>

\* A vote is pushed or the last vote is refreshed: generate_vote_tx signs the
\* transaction, signature number my_votes.signed + 1, or finds it cannot.
leader_generate_vote_tx ==
  /\ pc = "leader"
  /\ my_votes.signed < MaxVotes
  /\ \E can_sign \in BOOLEAN :
       LET r == generate_vote_tx(voted_signatures, has_new_vote_been_rooted,
                                 can_sign, my_votes.signed + 1)
       IN /\ voted_signatures' = r.vote_signatures
          /\ my_votes' = IF r.vote_tx = NoSignature THEN my_votes
                         ELSE [my_votes EXCEPT !.signed = r.vote_tx]
  /\ UNCHANGED <<banks, root, progress, fork_choice, duplicate_slots_tracker,
                 gossip_duplicate_confirmed_slots,
                 unfrozen_gossip_verified_vote_hashes, trace,
                 has_new_vote_been_rooted, poh_recorder, skipped_slots_info,
                 retransmit_slots>>
  /\ UNCHANGED leader_rest

\* handle_new_root for a frozen block above the root; signature_status is the
\* set of this node's vote signatures the new root bank has a status for.
leader_handle_new_root ==
  /\ pc = "leader"
  /\ \E new_root \in Descendants(banks, root) \cap frozen_banks(banks),
        highest_confirmed_root \in {NoSlot, root},
        signature_status \in SUBSET (1..my_votes.signed) :
       LET st == handle_new_root([VoteState EXCEPT !.trace = <<>>], new_root,
                                 highest_confirmed_root)
           r == new_vote_rooted(has_new_vote_been_rooted, voted_signatures,
                                signature_status)
       IN /\ banks' = st.banks
          /\ root' = st.root
          /\ progress' = st.progress
          /\ fork_choice' = st.fork_choice
          /\ duplicate_slots_tracker' = st.duplicate_slots_tracker
          /\ gossip_duplicate_confirmed_slots' = st.gossip_duplicate_confirmed_slots
          /\ unfrozen_gossip_verified_vote_hashes' =
               st.unfrozen_gossip_verified_vote_hashes
          /\ trace' = st.trace
          /\ has_new_vote_been_rooted' = r.has_new_vote_been_rooted
          /\ voted_signatures' = r.voted_signatures
          /\ my_votes' = [my_votes EXCEPT !.rooted = @ \/ signature_status # {}]
  /\ UNCHANGED <<poh_recorder, skipped_slots_info, retransmit_slots>>
  /\ UNCHANGED leader_rest

\* maybe_start_leader, called when the PoH recorder holds no working bank.
\* The recorder reports whether the leader slot is reached, the slot and its
\* parent, a frozen block at or above the root.
leader_maybe_start_leader ==
  /\ pc = "leader"
  /\ poh_recorder.bank = NoSlot
  /\ \E reached_leader_slot \in BOOLEAN,
        parent_slot \in {s \in frozen_banks(banks) : s >= root /\ s \in DOMAIN progress},
        poh_slot \in 1..MaxPohSlot,
        known \in BOOLEAN :
       /\ poh_slot > parent_slot
       /\ LET reached == [reached_leader_slot |-> reached_leader_slot,
                          poh_slot |-> poh_slot, parent_slot |-> parent_slot]
              next_leader == IF known THEN slot_leader_at(poh_slot) ELSE NoLeader
              r == maybe_start_leader(banks, progress, reached, next_leader,
                                      skipped_slots_info, has_new_vote_been_rooted)
          IN /\ banks' = IF r.tpu_bank = NoSlot THEN banks
                         ELSE InsertBanks(banks, << <<parent_slot, r.tpu_bank>> >>)
             /\ poh_recorder' = [poh_recorder EXCEPT !.bank = r.tpu_bank]
             /\ skipped_slots_info' = r.skipped_slots_info
             /\ retransmit_slots' = IF r.retransmit = NoSlot THEN retransmit_slots
                                    ELSE retransmit_slots \cup {r.retransmit}
  /\ UNCHANGED <<root, progress, fork_choice, duplicate_slots_tracker,
                 gossip_duplicate_confirmed_slots,
                 unfrozen_gossip_verified_vote_hashes, trace,
                 has_new_vote_been_rooted, voted_signatures, my_votes>>
  /\ UNCHANGED leader_rest

NextLeader ==
  \/ leader_generate_vote_tx
  \/ leader_handle_new_root
  \/ leader_maybe_start_leader

SpecLeader == InitLeaderStage /\ [][NextLeader]_vars

(***************************************************************************)
(* Properties of single calls.                                             *)
(***************************************************************************)
\* C11: handle_new_root applied a second time for the same root leaves the
\* progress map, the duplicate-slots tracker, the gossip duplicate-confirmed
\* map, the unfrozen gossip vote hashes and the fork-choice tree as the
\* first application left them.
C11_HandleNewRootIdempotent ==
  [][(call.fn = "handle_new_root" /\ call.applied = 1 /\ call'.applied = 2) =>
       /\ progress' = progress
       /\ duplicate_slots_tracker' = duplicate_slots_tracker
       /\ gossip_duplicate_confirmed_slots' = gossip_duplicate_confirmed_slots
       /\ unfrozen_gossip_verified_vote_hashes' = unfrozen_gossip_verified_vote_hashes
       /\ fork_choice' = fork_choice]_vars

\* handle_new_root has been applied twice; it pruned slot 0 from the
\* progress map and kept an ancestor of the root, and the tracker, both
\* gossip maps and the tree still hold slots at or above the root.
C11_Witness ==
  /\ call.fn = "handle_new_root"
  /\ call.applied = 2
  /\ root = call.new_root
  /\ 0 \notin DOMAIN progress
  /\ \E s \in DOMAIN progress : s < root
  /\ duplicate_slots_tracker # {}
  /\ DOMAIN gossip_duplicate_confirmed_slots # {}
  /\ unfrozen_gossip_verified_vote_hashes # {}
  /\ Cardinality(fork_choice.nodes) >= 2

\* C12: is_partition_detected is true exactly when the last voted slot
\* differs from the heaviest slot and is not among the heaviest slot's
\* ancestors; when ancestors has no entry for the heaviest slot it is false.
C12_IsPartitionDetected ==
  (call.fn = "is_partition_detected" /\ call.done) =>
    IF call.heaviest_slot \in DOMAIN call.ancestors
    THEN call.result <=>
           /\ call.last_voted_slot # call.heaviest_slot
           /\ call.last_voted_slot \notin call.ancestors[call.heaviest_slot]
    ELSE ~call.result

\* A partition was detected for a last vote on another fork than the
\* heaviest slot's, whose ancestors are known and not empty.
C12_Witness ==
  /\ call.fn = "is_partition_detected"
  /\ call.done
  /\ call.result
  /\ call.heaviest_slot \in DOMAIN call.ancestors
  /\ call.ancestors[call.heaviest_slot] # {}
  /\ call.last_voted_slot \in DOMAIN call.ancestors

\* C13: should_retransmit returns true if and only if poh_slot is below the
\* last retransmit slot or at least NUM_CONSECUTIVE_LEADER_SLOTS above it;
\* when it returns true the last retransmit slot becomes poh_slot, and when
\* it returns false the last retransmit slot stays.
C13_ShouldRetransmit ==
  (call.fn = "should_retransmit" /\ call.done) =>
    /\ call.result <=>
         \/ call.poh_slot < call.last_retransmit_slot
         \/ call.poh_slot >= call.last_retransmit_slot + NUM_CONSECUTIVE_LEADER_SLOTS
    /\ call.result => call.last_retransmit_slot_after = call.poh_slot
    /\ ~call.result => call.last_retransmit_slot_after = call.last_retransmit_slot

\* A retransmit exactly NUM_CONSECUTIVE_LEADER_SLOTS after the last one.
C13_Witness ==
  /\ call.fn = "should_retransmit"
  /\ call.done
  /\ call.result
  /\ call.last_retransmit_slot > 0
  /\ call.poh_slot = call.last_retransmit_slot + NUM_CONSECUTIVE_LEADER_SLOTS
  /\ call.last_retransmit_slot_after = call.poh_slot

\* C14: when two candidates, children of one block on the way to the
\* heaviest bank, have identical subtree stake, the heaviest bank returned is
\* not the one with the higher slot nor a descendant of it; and the heaviest
\* bank is a leaf.
C14_SameWeightSelectsLowerSlot ==
  (call.fn = "select_forks" /\ call.done) =>
    LET h == call.heaviest_bank
        path == Ancestors(call.banks, h) \cup {h}
        w(c) == stake_voted_subtree(call.banks, call.stake_voted_at, c)
    IN /\ Children(call.banks, h) = {}
       /\ \A p \in path : \A a, b \in Children(call.banks, p) :
            (a < b /\ w(a) = w(b)) => b \notin path

\* The tree 0 -> {1, 2} with equal stake on 1 and 2: the heaviest bank is
\* in the subtree of 1.
C14_Witness ==
  /\ call.fn = "select_forks"
  /\ call.done
  /\ call.banks[1].parent = 0
  /\ call.banks[2].parent = 0
  /\ stake_voted_subtree(call.banks, call.stake_voted_at, 1) > 0
  /\ stake_voted_subtree(call.banks, call.stake_voted_at, 1)
       = stake_voted_subtree(call.banks, call.stake_voted_at, 2)
  /\ 1 \in Ancestors(call.banks, call.heaviest_bank) \cup {call.heaviest_bank}

(***************************************************************************)
(* Properties of the end of an iteration and of the thread.                *)
(***************************************************************************)
\* C15: once the replay thread has terminated, whether it saw the exit flag
\* at the top of an iteration, found the ledger-signal channel disconnected
\* or panicked inside the loop, the shared exit flag is true.
C15_ExitFlagSetAfterTermination == thread_terminated => exit

\* The thread has panicked, with no other thread having set the flag, and
\* the flag is true.
C15_Witness == pc = "panicked" /\ exit

\* C16: refresh_last_vote sends a refreshed vote transaction only when the
\* latest landed vote is below the Tower's last voted slot, the last vote's
\* blockhash is no longer within MAX_PROCESSING_AGE in the heaviest bank on
\* the same fork, and at least MAX_VOTE_REFRESH_INTERVAL_MILLIS have elapsed
\* since the last refresh; when nothing is sent, the Tower's recorded
\* blockhash and the time of the last refresh are as before.
C16_RefreshOnlyWhenAllThreeHold ==
  (call.fn = "refresh_last_vote" /\ call.done) =>
    /\ call.emitted =>
         /\ last_voted_slot(call.tower) # NoSlot
         /\ call.my_latest_landed_vote < last_voted_slot(call.tower)
         /\ ~(/\ call.last_vote_tx_blockhash_age # NoSlot
              /\ call.last_vote_tx_blockhash_age <= MAX_PROCESSING_AGE)
         /\ call.now - call.last_refresh_time >= MAX_VOTE_REFRESH_INTERVAL_MILLIS
    /\ ~call.emitted =>
         /\ call.last_vote_tx_blockhash_after = call.last_vote_tx_blockhash
         /\ call.last_refresh_time_after = call.last_refresh_time

\* A vote that has not landed, its blockhash expired, the interval just
\* reached: the vote is sent again with the bank's blockhash.
C16_Witness ==
  /\ call.fn = "refresh_last_vote"
  /\ call.done
  /\ call.emitted
  /\ call.last_vote_tx_blockhash_age = MAX_PROCESSING_AGE + 1
  /\ call.now = MAX_VOTE_REFRESH_INTERVAL_MILLIS
  /\ call.last_vote_tx_blockhash_after # call.last_vote_tx_blockhash
  /\ call.last_refresh_time_after = call.now

\* The stake of the vote accounts whose root is at or above R.
RECURSIVE StakeRootedAtOrAbove(_, _)
StakeRootedAtOrAbove(vote_accounts, R) ==
  IF vote_accounts = <<>> THEN 0
  ELSE (IF Head(vote_accounts).root_slot # NoSlot /\ Head(vote_accounts).root_slot >= R
        THEN Head(vote_accounts).stake ELSE 0)
       + StakeRootedAtOrAbove(Tail(vote_accounts), R)

\* The slots R for which that stake is strictly more than 2/3 of the total.
SupermajorityRoots(vote_accounts, total_epoch_stake_) ==
  {R \in 0..8 : 3 * StakeRootedAtOrAbove(vote_accounts, R) > 2 * total_epoch_stake_}

\* C17: supermajority_root_from_vote_accounts returns the greatest root R
\* such that the vote accounts whose root is at or above R hold strictly more
\* than 2/3 of the total epoch stake, and None when there is no such R, as
\* when there are no vote accounts.
C17_SupermajorityRootIsGreatest ==
  (call.fn = "supermajority_root_from_vote_accounts" /\ call.done) =>
    LET S == SupermajorityRoots(call.vote_accounts, call.total_epoch_stake)
    IN /\ S = {} => call.result = NoSlot
       /\ S # {} => /\ call.result \in S
                    /\ \A R \in S : R <= call.result
       /\ call.vote_accounts = <<>> => call.result = NoSlot

\* Roots 8, 4 and 3 with stakes 6, 1 and 1 of 10: the root 4 has 7/10 behind
\* it but 8 has 6/10 only, so 4 is returned.
C17_Witness ==
  /\ call.fn = "supermajority_root_from_vote_accounts"
  /\ call.done
  /\ call.total_epoch_stake = 10
  /\ call.vote_accounts = <<[root_slot |-> 3, stake |-> 1], [root_slot |-> 8, stake |-> 6],
                            [root_slot |-> 4, stake |-> 1]>>
  /\ call.result = 4

\* The call of C18: the vote accounts (root 4, stake 1) and (root 8,
\* stake 5) with a total epoch stake of 10.
C18_Input ==
  /\ call.fn = "supermajority_root_from_vote_accounts"
  /\ call.total_epoch_stake = 10
  /\ call.vote_accounts = <<[root_slot |-> 4, stake |-> 1], [root_slot |-> 8, stake |-> 5]>>

\* C18 as stated: on that input the call returns 8.
C18_ReturnsEight == (C18_Input /\ call.done) => call.result = 8

\* C18, amended: on that input the call returns None; 5/10 of the stake is
\* rooted at or above 8 and 6/10 at or above 4, neither more than 2/3.
C18_ReturnsNone == (C18_Input /\ call.done) => call.result = NoSlot

C18_Witness == C18_Input /\ call.done /\ call.result = NoSlot

\* C19: at the end of every iteration in which a reset bank was chosen and
\* the Tower has a last voted slot, partition_exists is true exactly when the
\* last voted slot is neither the heaviest slot nor one of its ancestors.
C19_PartitionFlagFollowsHeaviest ==
  [][(/\ pc = "reset"
      /\ pc' # "reset"
      /\ selected.reset_bank # NoSlot
      /\ last_voted_slot(tower) # NoSlot)
     => (partition_exists' =
           (/\ last_voted_slot(tower) # selected.heaviest_bank
            /\ last_voted_slot(tower) \notin selected.ancestors[selected.heaviest_bank]))]_vars

\* The failures select_vote_and_reset_forks has recorded.
C20_Failures ==
  {call.result.heaviest_fork_failures[i] :
     i \in 1..Len(call.result.heaviest_fork_failures)}

\* C20: select_vote_and_reset_forks returns a vote bank only when the
\* candidate is not locked out, passes the vote threshold, has its
\* propagation confirmed (it is a leader slot or is_propagated holds for it)
\* and the switch decision permits voting; when one of these fails there is
\* no vote bank, the failure is recorded, and the reset bank is the
\* candidate.
C20_VoteOnlyWhenAllChecksPass ==
  (call.fn = "select_vote_and_reset_forks" /\ call.done) =>
    LET candidate == IF call.switch_fork_decision = "FailedSwitchThreshold"
                     THEN call.heaviest_bank_on_same_voted_fork
                     ELSE call.heaviest_bank
        stats == call.progress[candidate]
        not_locked_out == ~stats.is_locked_out
        passes_threshold == stats.vote_threshold
        propagation_confirmed ==
          stats.is_leader_slot \/ is_propagated(call.progress, candidate)
        may_vote == call.switch_fork_decision \in {"SameFork", "SwitchProof"}
    IN /\ call.result.vote_bank # NoSlot =>
            /\ candidate # NoSlot
            /\ call.result.vote_bank = candidate
            /\ not_locked_out /\ passes_threshold /\ propagation_confirmed /\ may_vote
       /\ (/\ candidate # NoSlot
           /\ ~(not_locked_out /\ passes_threshold /\ propagation_confirmed /\ may_vote)) =>
            /\ call.result.vote_bank = NoSlot
            /\ call.result.reset_bank = candidate
            /\ ~not_locked_out => <<"LockedOut", candidate>> \in C20_Failures
            /\ ~passes_threshold => <<"FailedThreshold", candidate>> \in C20_Failures
            /\ ~propagation_confirmed =>
                 <<"NoPropagatedConfirmation", candidate>> \in C20_Failures
            /\ ~may_vote => <<"FailedSwitchThreshold", call.heaviest_bank>> \in C20_Failures

\* The heaviest bank is on the Tower's fork, not locked out and above the
\* threshold, but neither a leader slot nor propagated: no vote, the failure
\* recorded, the reset bank set.
C20_Witness ==
  /\ call.fn = "select_vote_and_reset_forks"
  /\ call.done
  /\ call.switch_fork_decision = "SameFork"
  /\ ~call.progress[2].is_locked_out
  /\ call.progress[2].vote_threshold
  /\ call.result.vote_bank = NoSlot
  /\ call.result.reset_bank = 2
  /\ call.result.heaviest_fork_failures = <<<<"NoPropagatedConfirmation", 2>>>>

\* C21: under the switch decision FailedSwitchThreshold,
\* select_vote_and_reset_forks returns no vote bank, the heaviest bank on
\* the voted fork (if any) as the reset bank, and records
\* FailedSwitchThreshold for the slot of the heaviest bank.
C21_FailedSwitchThresholdResetsToVotedFork ==
  (/\ call.fn = "select_vote_and_reset_forks"
   /\ call.done
   /\ call.switch_fork_decision = "FailedSwitchThreshold") =>
    /\ call.result.vote_bank = NoSlot
    /\ call.result.reset_bank = call.heaviest_bank_on_same_voted_fork
    /\ \E i \in 1..Len(call.result.heaviest_fork_failures) :
         call.result.heaviest_fork_failures[i] = <<"FailedSwitchThreshold", call.heaviest_bank>>

\* The bank on the voted fork could be voted on, were it not for the switch
\* decision: no vote, the reset bank is that bank, not the heaviest.
C21_Witness ==
  /\ call.fn = "select_vote_and_reset_forks"
  /\ call.done
  /\ call.switch_fork_decision = "FailedSwitchThreshold"
  /\ call.heaviest_bank_on_same_voted_fork = 1
  /\ ~call.progress[1].is_locked_out
  /\ call.progress[1].vote_threshold
  /\ call.progress[1].is_leader_slot
  /\ call.result.vote_bank = NoSlot
  /\ call.result.reset_bank = 1
  /\ call.result.heaviest_fork_failures = <<<<"FailedSwitchThreshold", 2>>>>

\* C22: under the switch decision FailedSwitchDuplicateRollback,
\* select_vote_and_reset_forks returns no vote bank and the heaviest bank
\* itself as the reset bank, whatever the lockout, threshold and propagation
\* of that bank.
C22_DuplicateRollbackResetsToHeaviest ==
  (/\ call.fn = "select_vote_and_reset_forks"
   /\ call.done
   /\ call.switch_fork_decision = "FailedSwitchDuplicateRollback") =>
    /\ call.result.vote_bank = NoSlot
    /\ call.result.reset_bank = call.heaviest_bank

\* The heaviest bank passes every check of its own and there is a bank on
\* the voted fork: still no vote, and the reset bank is the heaviest.
C22_Witness ==
  /\ call.fn = "select_vote_and_reset_forks"
  /\ call.done
  /\ call.switch_fork_decision = "FailedSwitchDuplicateRollback"
  /\ call.heaviest_bank_on_same_voted_fork = 1
  /\ ~call.progress[2].is_locked_out
  /\ call.progress[2].vote_threshold
  /\ call.progress[2].is_leader_slot
  /\ call.result.vote_bank = NoSlot
  /\ call.result.reset_bank = 2

\* C23: select_vote_and_reset_forks returns no vote bank exactly when the
\* list of heaviest-fork failures it returns is not empty.
C23_NoVoteIffFailures ==
  (call.fn = "select_vote_and_reset_forks" /\ call.done) =>
    ((call.result.vote_bank = NoSlot) = (call.result.heaviest_fork_failures # <<>>))

\* A lockout alone keeps the vote back, and it is the one failure listed.
C23_Witness ==
  /\ call.fn = "select_vote_and_reset_forks"
  /\ call.done
  /\ call.switch_fork_decision = "SwitchProof"
  /\ call.result.vote_bank = NoSlot
  /\ call.result.heaviest_fork_failures = <<<<"LockedOut", 2>>>>


\* C24 as stated: the PoH recorder holds a working bank installed by
\* maybe_start_leader only if one of this node's votes has been seen in a
\* root bank since the stage was constructed.
C24_StartsOnlyAfterRootedVote ==
  poh_recorder.bank # NoSlot => my_votes.rooted

\* C24, amended: maybe_start_leader installs a working bank only while
\* has_new_vote_been_rooted is set, and under wait_for_vote_to_start_leader
\* the flag is set only once a recorded vote signature was found in a new
\* root bank; without wait_for_vote_to_start_leader the flag is set from the
\* start.
C24_StartsOnlyWhenFlagSet ==
  /\ poh_recorder.bank # NoSlot => has_new_vote_been_rooted
  /\ has_new_vote_been_rooted => (wait_for_vote_to_start_leader => my_votes.rooted)
  /\ ~wait_for_vote_to_start_leader => has_new_vote_been_rooted

C24_Witness ==
  /\ wait_for_vote_to_start_leader
  /\ poh_recorder.bank # NoSlot
  /\ my_votes.rooted

\* C25: when maybe_start_leader installs a working bank for poh_slot on
\* parent_slot, the latest leader slot of the parent (if there is one still
\* in the progress map) is propagated, or poh_slot is fewer than
\* NUM_CONSECUTIVE_LEADER_SLOTS slots after it.
C25_StartOnlyAfterPropagation ==
  [][(poh_recorder.bank = NoSlot /\ poh_recorder'.bank # NoSlot)
       => LET poh_slot == poh_recorder'.bank
              parent_slot == banks'[poh_slot].parent
              latest == get_latest_leader_slot(progress, parent_slot)
          IN \/ latest = NoSlot
             \/ latest \notin DOMAIN progress
             \/ progress[latest].is_propagated
             \/ poh_slot - latest < NUM_CONSECUTIVE_LEADER_SLOTS]_vars

C25_Witness ==
  /\ poh_recorder.bank # NoSlot
  /\ LET poh_slot == poh_recorder.bank
         parent_slot == banks[poh_slot].parent
         latest == get_latest_leader_slot(progress, parent_slot)
     IN /\ latest # NoSlot
        /\ latest \in DOMAIN progress
        /\ progress[latest].is_propagated
        /\ poh_slot - latest >= NUM_CONSECUTIVE_LEADER_SLOTS


\* The last min(n, MAX_VOTE_SIGNATURES) of the signatures 1..n, oldest first.
MostRecentSignatures(n) ==
  LET k == IF n < MAX_VOTE_SIGNATURES THEN n ELSE MAX_VOTE_SIGNATURES
  IN [i \in 1..k |-> n - k + i]

\* C27 as stated: as long as no vote of this node has been seen in a root
\* bank the buffer holds the most recent signatures signed, at most
\* MAX_VOTE_SIGNATURES of them, and from then on it is empty.
C27_BufferFollowsRootedVotes ==
  /\ ~my_votes.rooted => voted_signatures = MostRecentSignatures(my_votes.signed)
  /\ my_votes.rooted => voted_signatures = <<>>

\* C27, amended: while has_new_vote_been_rooted is false the buffer holds the
\* most recent signatures signed, oldest first and at most
\* MAX_VOTE_SIGNATURES of them; while the flag is true the buffer is empty,
\* and the flag, once true, stays true.
C27_BufferFollowsFlag ==
  /\ [](/\ ~has_new_vote_been_rooted
             => voted_signatures = MostRecentSignatures(my_votes.signed)
        /\ Len(voted_signatures) <= MAX_VOTE_SIGNATURES
        /\ has_new_vote_been_rooted => voted_signatures = <<>>)
  /\ [][has_new_vote_been_rooted => has_new_vote_been_rooted']_vars

C27_Witness ==
  /\ ~has_new_vote_been_rooted
  /\ my_votes.signed > MAX_VOTE_SIGNATURES
  /\ Len(voted_signatures) = MAX_VOTE_SIGNATURES


(***************************************************************************)
(* The propagation statistics of the progress map while forks are          *)
(* extended, replayed and voted on by the cluster.  A bank answers         *)
(* epoch_vote_account_stake and total_epoch_stake for its own epoch, and   *)
(* the stake of this node may differ from one epoch to the next.           *)
(***************************************************************************)
\* The stake of the other validators, the same in both epochs.
OtherStake == SumStake(Validators \ {"me"})

\* bank.epoch_vote_account_stake(my vote account) and bank.total_epoch_stake()
\* of the bank of a slot: the slots below call.next_epoch are of one epoch,
\* the others of the next.
MyStakeAt(slot) == IF slot < call.next_epoch THEN call.my_stake[1] ELSE call.my_stake[2]
TotalStakeAt(slot) == MyStakeAt(slot) + OtherStake

\* A replay stage at genesis; the epoch boundary and this node's stake in the
\* two epochs are those of the cluster.
InitPropagation ==
  /\ pc = "propagation"
  /\ InitLoop
  /\ InitLeader(FALSE)
  /\ InitVoteChannel
  /\ ReplayAtGenesis
  /\ dead_slots = {}
  /\ blockstore_slots = Slots
  /\ blockstore_roots = {0}
  /\ leader_schedule_root = 0
  /\ selected = NoSelection
  /\ tower = EmptyTower
  /\ saved_tower = EmptyTower
  /\ replay_results = <<>>
  /\ trace = <<>>
  /\ pe = NoEntries
  /\ exec_log = <<>>
  /\ \E next_epoch \in 1..(MaxSlot + 1),
        my_stake \in {epoch_vote_account_stake("me"), epoch_vote_account_stake("v2")}
                       \X {epoch_vote_account_stake("me"), epoch_vote_account_stake("v2")} :
       call = [fn |-> "propagation", next_epoch |-> next_epoch, my_stake |-> my_stake]

\* What the steps on the propagation statistics leave alone.
propagation_rest ==
  <<pc, root, fork_choice, duplicate_slots_tracker, dead_slots, blockstore_slots,
    blockstore_roots, leader_schedule_root, selected, tower, saved_tower,
    replay_results, trace, pe, exec_log, gossip_duplicate_confirmed_slots,
    unfrozen_gossip_verified_vote_hashes, call, exit, last_reset,
    partition_exists>>

\* generate_new_bank_forks for one new child of a frozen bank: the child's
\* leader is recorded as a node that has seen the parent's fork.
propagation_generate_new_bank_forks ==
  /\ pc = "propagation"
  /\ active_banks(banks) = {}
  /\ \E parent \in frozen_banks(banks), child \in Slots :
       /\ child \notin DOMAIN banks
       /\ \A s \in DOMAIN banks : s < child
       /\ banks' = InsertBanks(banks, << <<parent, child>> >>)
       /\ progress' = update_fork_propagated_threshold_from_votes(
                        progress, {}, {slot_leader_at(child)}, parent, root)
  /\ UNCHANGED propagation_rest
  /\ UNCHANGED leader_vars
  /\ UNCHANGED vote_channel_vars

\* replay_active_banks for an active bank that replays to its end: its
\* ForkProgress is made by ForkProgress::new_from_bank and the bank is frozen.
propagation_replay_active_banks ==
  /\ pc = "propagation"
  /\ \E slot \in active_banks(banks) :
       /\ progress' =
            [s \in DOMAIN progress \cup {slot} |->
               IF s \in DOMAIN progress THEN progress[s]
               ELSE ForkProgress_new_with_stake(
                      slot_leader_at(slot) = "me",
                      get_bank_prev_leader_slot(progress, banks[slot].parent),
                      MyStakeAt(slot), TotalStakeAt(slot))]
       /\ banks' = [banks EXCEPT ![slot].frozen = TRUE]
  /\ UNCHANGED propagation_rest
  /\ UNCHANGED leader_vars
  /\ UNCHANGED vote_channel_vars

\* compute_bank_stats' update_propagation_status for a frozen bank, with the
\* votes and node ids newly seen for its slot.
propagation_update_propagation_status ==
  /\ pc = "propagation"
  /\ \E slot \in frozen_banks(banks) \cap DOMAIN progress,
        newly_voted_pubkeys \in SUBSET Validators,
        cluster_slot_pubkeys \in SUBSET Validators :
       progress' = update_propagation_status(progress, slot, newly_voted_pubkeys,
                                             cluster_slot_pubkeys, root)
  /\ UNCHANGED banks
  /\ UNCHANGED propagation_rest
  /\ UNCHANGED leader_vars
  /\ UNCHANGED vote_channel_vars

NextPropagation ==
  \/ propagation_generate_new_bank_forks
  \/ propagation_replay_active_banks
  \/ propagation_update_propagation_status

SpecPropagation == InitPropagation /\ [][NextPropagation]_vars

\* The leader slots reached from slot s by prev_leader_slot links, as far as
\* the links stay in the progress map.
RECURSIVE PrevLeaderSlots(_, _)
PrevLeaderSlots(progress_, s) ==
  LET prev == progress_[s].prev_leader_slot
  IN IF prev = NoSlot \/ prev \notin DOMAIN progress_ THEN {}
     ELSE {prev} \cup PrevLeaderSlots(progress_, prev)

\* C26: in the progress map, every leader slot reached by prev_leader_slot
\* links from a propagated leader slot is propagated.
C26_PropagatedDownTheLeaderChain ==
  \A s \in DOMAIN progress :
    (progress[s].is_leader_slot /\ progress[s].is_propagated)
      => \A a \in PrevLeaderSlots(progress, s) : progress[a].is_propagated

(***************************************************************************)
(* Votes verified by gossip: the channel from the vote listener, the votes *)
(* parked until their block is frozen and the latest votes for frozen      *)
(* banks.  The steps are those of one loop iteration that touch them:      *)
(* replay_active_banks, process_gossip_verified_vote_hashes and the drain  *)
(* of the channel that follows it; the vote listener sends at any time.    *)
(***************************************************************************)
\* The votes the vote listener sends in one run.
MaxGossipVotes == 2

\* LatestValidatorVotesForFrozenBanks::check_add_vote with a frozen hash: the
\* vote is given to the structure.
check_add_vote(latest, pubkey, slot, hash) == latest \cup {<<pubkey, slot, hash>>}

\* UnfrozenGossipVerifiedVoteHashes::add_vote: a vote for a frozen block goes
\* to the latest votes, any other is kept under its (slot, hash).
add_vote(st, pubkey, slot, hash, is_frozen) ==
  IF is_frozen
  THEN [st EXCEPT !.latest = check_add_vote(@, pubkey, slot, hash)]
  ELSE [st EXCEPT !.votes_per_slot = @ \cup {<<slot, hash, pubkey>>}]

\* UnfrozenGossipVerifiedVoteHashes::remove_slot_hash: the voters parked
\* under (slot, hash), which leave the structure.
remove_slot_hash(votes_per_slot, slot, hash) ==
  [ voters |-> {v[3] : v \in {x \in votes_per_slot : x[1] = slot /\ x[2] = hash}},
    votes_per_slot |-> {x \in votes_per_slot : ~(x[1] = slot /\ x[2] = hash)} ]

\* HeaviestSubtreeForkChoice::contains_block.
contains_block(fork_choice_, key) == key \in fork_choice_.nodes

\* process_gossip_verified_vote_hashes: every vote the channel holds is taken
\* and handed to add_vote; st holds votes_per_slot and the latest votes.
RECURSIVE process_gossip_verified_vote_hashes(_, _, _)
process_gossip_verified_vote_hashes(receiver, st, fork_choice_) ==
  IF receiver = <<>> THEN st
  ELSE LET vote == Head(receiver)
           is_frozen == contains_block(fork_choice_, <<vote.slot, vote.hash>>)
       IN process_gossip_verified_vote_hashes(
            Tail(receiver),
            add_vote(st, vote.pubkey, vote.slot, vote.hash, is_frozen),
            fork_choice_)

ApplyUnfrozenVotesNever(st, banks_, completed) == st

\* replay_active_banks, for every bank frozen in the call: the voters parked
\* under the bank's slot and hash are given to the latest votes.
RECURSIVE apply_unfrozen_votes(_, _, _)
apply_unfrozen_votes(st, banks_, completed) ==
  IF completed = {} THEN st
  ELSE LET slot == MinSlot(completed)
           bank_hash == bank_hash_of(banks_, slot)
           removed == remove_slot_hash(st.votes_per_slot, slot, bank_hash)
       IN apply_unfrozen_votes(
            [ votes_per_slot |-> removed.votes_per_slot,
              latest |-> st.latest \cup
                           {<<pubkey, slot, bank_hash>> : pubkey \in removed.voters} ],
            banks_, completed \ {slot})

\* The votes gossip may verify: a vote of another validator for slot 1 or 2
\* and the hash of the block, or of its second version where there is one.
GossipVotes ==
  {[pubkey |-> v, slot |-> s, hash |-> h] :
     <<v, s, h>> \in {x \in (Validators \ {"me"}) \X (1..2) \X (1..(2 * MaxSlot + 2)) :
                        \/ x[3] = FrozenHash(x[2])
                        \/ x[2] \in 1..MaxDuplicate /\ x[3] = OtherVersionHash(x[2])}}

\* A replay stage rooted at genesis with two active children of the root,
\* about to replay; nothing has come from gossip.
InitGossipVotes ==
  /\ pc = "replay"
  /\ InitLoop
  /\ InitLeader(FALSE)
  /\ InitVoteChannel
  /\ banks = [s \in 0..2 |-> IF s = 0 THEN GenesisBanks[0]
                             ELSE [parent |-> 0, frozen |-> FALSE]]
  /\ root = 0
  /\ progress = initialize_progress_and_fork_choice(GenesisBanks, 0).progress
  /\ fork_choice = initialize_progress_and_fork_choice(GenesisBanks, 0).fork_choice
  /\ duplicate_slots_tracker = {}
  /\ gossip_duplicate_confirmed_slots = <<>>
  /\ unfrozen_gossip_verified_vote_hashes = {}
  /\ dead_slots = {}
  /\ blockstore_slots = 0..2
  /\ blockstore_roots = {0}
  /\ leader_schedule_root = 0
  /\ selected = NoSelection
  /\ tower = EmptyTower
  /\ saved_tower = EmptyTower
  /\ replay_results = <<>>
  /\ trace = <<>>
  /\ pe = NoEntries
  /\ exec_log = <<>>
  /\ call = [fn |-> "gossip_votes", sent |-> {}]

\* What the steps on the gossip votes leave alone.
gossip_votes_rest ==
  <<root, duplicate_slots_tracker, blockstore_slots, blockstore_roots,
    leader_schedule_root, selected, tower, saved_tower, trace, pe, exec_log,
    gossip_duplicate_confirmed_slots, exit, last_reset, partition_exists,
    duplicate_slots_receiver>>

\* The vote listener sends a vote it has verified; it sends no vote twice.
gossip_vote_sent ==
  /\ call.fn = "gossip_votes"
  /\ Cardinality(call.sent) < MaxGossipVotes
  /\ \E vote \in GossipVotes \ call.sent :
       /\ gossip_verified_vote_hash_receiver' =
            Append(gossip_verified_vote_hash_receiver, vote)
       /\ call' = [call EXCEPT !.sent = @ \cup {vote}]
  /\ UNCHANGED <<pc, banks, progress, fork_choice, dead_slots, replay_results,
                 unfrozen_gossip_verified_vote_hashes,
                 latest_validator_votes_for_frozen_banks>>
  /\ UNCHANGED gossip_votes_rest
  /\ UNCHANGED leader_vars

\* replay_active_banks, with the votes parked for the banks it freezes.
gossip_replay_active_banks ==
  /\ call.fn = "gossip_votes"
  /\ pc = "replay"
  /\ LET todo == ReplayedBanks(banks, progress)
     IN \E outcome \in [todo -> {"err", "incomplete", "complete"}] :
          /\ \A s \in todo : outcome[s] \in ReplayOutcomes(s)
          /\ LET failed == {s \in todo : outcome[s] = "err"}
                 completed == {s \in todo : outcome[s] = "complete"}
                 frozen == FreezeBanks(banks, completed)
                 st == apply_unfrozen_votes(
                         [votes_per_slot |-> unfrozen_gossip_verified_vote_hashes,
                          latest |-> latest_validator_votes_for_frozen_banks],
                         frozen, completed)
             IN /\ progress' = mark_dead_slot(EntryOrInsert(progress, banks, todo), failed)
                /\ dead_slots' = dead_slots \cup failed
                /\ banks' = frozen
                /\ fork_choice' = AddLeaves(fork_choice, frozen, completed)
                /\ replay_results' = outcome
                /\ unfrozen_gossip_verified_vote_hashes' = st.votes_per_slot
                /\ latest_validator_votes_for_frozen_banks' = st.latest
  /\ pc' = "ingest"
  /\ UNCHANGED <<call, gossip_verified_vote_hash_receiver>>
  /\ UNCHANGED gossip_votes_rest
  /\ UNCHANGED leader_vars

\* process_gossip_verified_vote_hashes on what the channel holds.
gossip_process_gossip_verified_vote_hashes ==
  /\ call.fn = "gossip_votes"
  /\ pc = "ingest"
  /\ LET st == process_gossip_verified_vote_hashes(
                 gossip_verified_vote_hash_receiver,
                 [votes_per_slot |-> unfrozen_gossip_verified_vote_hashes,
                  latest |-> latest_validator_votes_for_frozen_banks],
                 fork_choice)
     IN /\ unfrozen_gossip_verified_vote_hashes' = st.votes_per_slot
        /\ latest_validator_votes_for_frozen_banks' = st.latest
  /\ gossip_verified_vote_hash_receiver' = <<>>
  /\ pc' = "drain"
  /\ UNCHANGED <<banks, progress, fork_choice, dead_slots, replay_results, call>>
  /\ UNCHANGED gossip_votes_rest
  /\ UNCHANGED leader_vars

\* `for _ in gossip_verified_vote_hash_receiver.try_iter() {}`: what the
\* channel holds by now is taken and dropped.
gossip_drain_receiver ==
  /\ call.fn = "gossip_votes"
  /\ pc = "drain"
  /\ gossip_verified_vote_hash_receiver' = <<>>
  /\ pc' = "replay"
  /\ UNCHANGED <<banks, progress, fork_choice, dead_slots, replay_results, call,
                 unfrozen_gossip_verified_vote_hashes,
                 latest_validator_votes_for_frozen_banks>>
  /\ UNCHANGED gossip_votes_rest
  /\ UNCHANGED leader_vars

NextGossipVotes ==
  \/ gossip_vote_sent
  \/ gossip_replay_active_banks
  \/ gossip_process_gossip_verified_vote_hashes
  \/ gossip_drain_receiver

SpecGossipVotes == InitGossipVotes /\ [][NextGossipVotes]_vars

\* C30: a vote taken from the channel whose (slot, hash) is in fork choice is
\* given to the latest votes in that step and not parked; any other vote
\* taken is parked; the votes parked under the (slot, hash) of a block that
\* enters fork choice, as it does when it is frozen, are given to the latest
\* votes in that step and leave the parked votes; and no vote stays parked
\* under a (slot, hash) that is in fork choice.
C30_GossipVoteAppliedOrParked ==
  /\ [](\A v \in unfrozen_gossip_verified_vote_hashes :
          <<v[1], v[2]>> \notin fork_choice.nodes)
  /\ [][/\ (pc = "ingest" /\ pc' = "drain")
             => \A i \in 1..Len(gossip_verified_vote_hash_receiver) :
                  LET vote == gossip_verified_vote_hash_receiver[i]
                  IN IF <<vote.slot, vote.hash>> \in fork_choice.nodes
                     THEN /\ <<vote.pubkey, vote.slot, vote.hash>>
                               \in latest_validator_votes_for_frozen_banks'
                          /\ <<vote.slot, vote.hash, vote.pubkey>>
                               \notin unfrozen_gossip_verified_vote_hashes'
                     ELSE /\ <<vote.slot, vote.hash, vote.pubkey>>
                               \in unfrozen_gossip_verified_vote_hashes'
                          /\ <<vote.pubkey, vote.slot, vote.hash>>
                               \notin latest_validator_votes_for_frozen_banks'
        /\ \A v \in unfrozen_gossip_verified_vote_hashes :
             (<<v[1], v[2]>> \in fork_choice'.nodes /\ banks'[v[1]].frozen)
               => /\ <<v[3], v[1], v[2]>> \in latest_validator_votes_for_frozen_banks'
                  /\ v \notin unfrozen_gossip_verified_vote_hashes']_vars

\* A vote was parked and has been given to the latest votes when its block
\* froze, and another vote was given to them at once.
C30_Witness ==
  /\ unfrozen_gossip_verified_vote_hashes = {}
  /\ call.fn = "gossip_votes"
  /\ \E v, w \in call.sent :
       /\ v # w
       /\ {<<v.pubkey, v.slot, v.hash>>, <<w.pubkey, w.slot, w.hash>>}
            \subseteq latest_validator_votes_for_frozen_banks
       /\ replay_results # <<>>

(***************************************************************************)
(* The duplicate-slot channel and block production.  The loop reads        *)
(* has_bank() once, early in the iteration, into tpu_has_bank; that local  *)
(* decides whether process_duplicate_slots and maybe_start_leader run.     *)
(* WindowService sends the signals and the PoH thread gives up the working *)
(* bank at the end of its slot, both at any time.                          *)
(***************************************************************************)
\* The slots WindowService may signal as duplicate, once each.
DuplicateSignalSlots == 1..2

\* The PoH slots at which the recorder may report a leader slot reached.
LeaderPohSlots == {MaxSlot + 2, MaxSlot + 4}

ProcessDuplicateSlotsCheckingNothing(tracker, new_duplicate_slots, root_) == tracker

\* process_duplicate_slots on the signals taken from the channel, in order.
RECURSIVE ProcessDuplicateSlots(_, _, _)
ProcessDuplicateSlots(tracker, new_duplicate_slots, root_) ==
  IF new_duplicate_slots = <<>> THEN tracker
  ELSE ProcessDuplicateSlots(
         check_slot_agrees_with_cluster(tracker, Head(new_duplicate_slots), root_,
                                        "Duplicate"),
         Tail(new_duplicate_slots), root_)

\* A replay stage rooted at slot 0 with the frozen chain 0..MaxSlot, every
\* leader slot of this node propagated, at the top of a loop iteration; the
\* PoH recorder holds no working bank and no signal has been sent.
InitDuplicates ==
  /\ pc = "tpu_has_bank"
  /\ InitLoop
  /\ InitLeader(FALSE)
  /\ InitVoteChannel
  /\ banks \in {t \in FrozenTrees : \A s \in 1..MaxSlot : t[s].parent = s - 1}
  /\ root = 0
  /\ progress =
       MarkPropagated(initialize_progress_and_fork_choice(banks, 0).progress,
                      MyLeaderSlots(initialize_progress_and_fork_choice(banks, 0).progress))
  /\ fork_choice = initialize_progress_and_fork_choice(banks, 0).fork_choice
  /\ duplicate_slots_tracker = {}
  /\ gossip_duplicate_confirmed_slots = <<>>
  /\ unfrozen_gossip_verified_vote_hashes = {}
  /\ dead_slots = {}
  /\ blockstore_slots = Slots
  /\ blockstore_roots = {0}
  /\ leader_schedule_root = 0
  /\ selected = NoSelection
  /\ tower = EmptyTower
  /\ saved_tower = EmptyTower
  /\ replay_results = <<>>
  /\ trace = <<>>
  /\ pe = NoEntries
  /\ exec_log = <<>>
  /\ call = [fn |-> "duplicates", tpu_has_bank |-> FALSE, sent |-> {},
             left_queued |-> {}]

\* The slots waiting in the duplicate channel.
QueuedDuplicates ==
  {duplicate_slots_receiver[i] : i \in 1..Len(duplicate_slots_receiver)}

\* What the steps on the duplicate channel and block production leave alone.
duplicates_rest ==
  <<root, progress, fork_choice, dead_slots, blockstore_slots, blockstore_roots,
    leader_schedule_root, selected, tower, saved_tower, replay_results, trace,
    pe, exec_log, gossip_duplicate_confirmed_slots,
    unfrozen_gossip_verified_vote_hashes, exit, last_reset, partition_exists,
    wait_for_vote_to_start_leader, has_new_vote_been_rooted, voted_signatures,
    my_votes, gossip_verified_vote_hash_receiver,
    latest_validator_votes_for_frozen_banks>>

\* WindowService signals a slot as duplicate; it does so once per slot.
duplicate_slot_sent ==
  /\ call.fn = "duplicates"
  /\ \E slot \in DuplicateSignalSlots \ call.sent :
       /\ duplicate_slots_receiver' = Append(duplicate_slots_receiver, slot)
       /\ call' = [call EXCEPT !.sent = @ \cup {slot}]
  /\ UNCHANGED <<pc, banks, duplicate_slots_tracker, poh_recorder,
                 skipped_slots_info, retransmit_slots>>
  /\ UNCHANGED duplicates_rest

\* The PoH thread reaches the last tick of the working bank's slot and gives
\* the bank up.
poh_recorder_clear_bank ==
  /\ call.fn = "duplicates"
  /\ poh_recorder.bank # NoSlot
  /\ poh_recorder' = [poh_recorder EXCEPT !.bank = NoSlot]
  /\ UNCHANGED <<pc, banks, duplicate_slots_tracker, duplicate_slots_receiver,
                 call, skipped_slots_info, retransmit_slots>>
  /\ UNCHANGED duplicates_rest

\* `let mut tpu_has_bank = poh_recorder.lock().unwrap().has_bank();`
duplicates_tpu_has_bank ==
  /\ call.fn = "duplicates"
  /\ pc = "tpu_has_bank"
  /\ call' = [call EXCEPT !.tpu_has_bank = (poh_recorder.bank # NoSlot)]
  /\ pc' = "duplicates"
  /\ UNCHANGED <<banks, duplicate_slots_tracker, duplicate_slots_receiver,
                 poh_recorder, skipped_slots_info, retransmit_slots>>
  /\ UNCHANGED duplicates_rest

\* `if !tpu_has_bank { Self::process_duplicate_slots(..) }`: the channel is
\* emptied and every signal taken is checked against the cluster.  The call
\* record notes the signals left in the channel by an iteration that skips it.
duplicates_process_duplicate_slots ==
  /\ call.fn = "duplicates"
  /\ pc = "duplicates"
  /\ IF ~call.tpu_has_bank
     THEN /\ duplicate_slots_tracker' =
               ProcessDuplicateSlots(duplicate_slots_tracker,
                                     duplicate_slots_receiver, root)
          /\ duplicate_slots_receiver' = <<>>
          /\ call' = call
     ELSE /\ UNCHANGED <<duplicate_slots_tracker, duplicate_slots_receiver>>
          /\ call' = [call EXCEPT !.left_queued = @ \cup QueuedDuplicates]
  /\ pc' = "reset"
  /\ UNCHANGED <<banks, poh_recorder, skipped_slots_info, retransmit_slots>>
  /\ UNCHANGED duplicates_rest

\* The reset stage: when the loop resets block production onto a fork,
\* reset_poh_recorder makes the recorder give up its working bank and the
\* loop sets tpu_has_bank to false.
duplicates_reset_poh_recorder ==
  /\ call.fn = "duplicates"
  /\ pc = "reset"
  /\ \E reset \in BOOLEAN :
       IF reset
       THEN /\ poh_recorder' = [poh_recorder EXCEPT !.bank = NoSlot]
            /\ call' = [call EXCEPT !.tpu_has_bank = FALSE]
       ELSE UNCHANGED <<poh_recorder, call>>
  /\ pc' = "leader"
  /\ UNCHANGED <<banks, duplicate_slots_tracker, duplicate_slots_receiver,
                 skipped_slots_info, retransmit_slots>>
  /\ UNCHANGED duplicates_rest

\* `if !tpu_has_bank { Self::maybe_start_leader(..) }`, the last step of the
\* iteration.
duplicates_maybe_start_leader ==
  /\ call.fn = "duplicates"
  /\ pc = "leader"
  /\ IF ~call.tpu_has_bank
     THEN \E reached_leader_slot \in BOOLEAN,
             parent_slot \in {s \in frozen_banks(banks) : s >= root /\ s \in DOMAIN progress},
             poh_slot \in LeaderPohSlots :
            LET reached == [reached_leader_slot |-> reached_leader_slot,
                            poh_slot |-> poh_slot, parent_slot |-> parent_slot]
                r == maybe_start_leader(banks, progress, reached,
                                        slot_leader_at(poh_slot), skipped_slots_info,
                                        has_new_vote_been_rooted)
            IN /\ banks' = IF r.tpu_bank = NoSlot THEN banks
                           ELSE InsertBanks(banks, << <<parent_slot, r.tpu_bank>> >>)
               /\ poh_recorder' = [poh_recorder EXCEPT !.bank = r.tpu_bank]
               /\ skipped_slots_info' = r.skipped_slots_info
               /\ retransmit_slots' = IF r.retransmit = NoSlot THEN retransmit_slots
                                      ELSE retransmit_slots \cup {r.retransmit}
     ELSE UNCHANGED <<banks, poh_recorder, skipped_slots_info, retransmit_slots>>
  /\ pc' = "tpu_has_bank"
  /\ UNCHANGED <<call, duplicate_slots_tracker, duplicate_slots_receiver>>
  /\ UNCHANGED duplicates_rest

NextDuplicates ==
  \/ duplicate_slot_sent
  \/ poh_recorder_clear_bank
  \/ duplicates_tpu_has_bank
  \/ duplicates_process_duplicate_slots
  \/ duplicates_reset_poh_recorder
  \/ duplicates_maybe_start_leader

\* The loop thread and the PoH thread both keep running.
SpecDuplicates ==
  /\ InitDuplicates
  /\ [][NextDuplicates]_vars
  /\ WF_vars(duplicates_tpu_has_bank)
  /\ WF_vars(duplicates_process_duplicate_slots)
  /\ WF_vars(duplicates_reset_poh_recorder)
  /\ WF_vars(duplicates_maybe_start_leader)
  /\ WF_vars(poh_recorder_clear_bank)

\* C32: a step takes signals off the duplicate channel only when the PoH
\* recorder holds no working bank, and it is the loop's
\* process_duplicate_slots step; while a bank is held the channel only grows;
\* and every signal queued is in the end taken and checked, in an iteration
\* that found no bank held.
C32_DuplicatesDrainedOnlyWithoutBank ==
  /\ [][~(\A i \in 1..Len(duplicate_slots_receiver) :
            /\ i <= Len(duplicate_slots_receiver')
            /\ duplicate_slots_receiver'[i] = duplicate_slots_receiver[i])
          => /\ poh_recorder.bank = NoSlot
             /\ pc = "duplicates"
             /\ ~call.tpu_has_bank
             /\ duplicate_slots_receiver' = <<>>
             /\ QueuedDuplicates \subseteq duplicate_slots_tracker']_vars
  /\ \A slot \in DuplicateSignalSlots :
       (slot \in QueuedDuplicates) ~> (slot \in duplicate_slots_tracker)

\* A signal arrived while a bank was held, stayed queued over an iteration
\* that found the bank, and was taken in a later one.
C32_Witness ==
  /\ call.fn = "duplicates"
  /\ duplicate_slots_receiver = <<>>
  /\ call.left_queued \cap duplicate_slots_tracker # {}

(***************************************************************************)
(* load_frozen_forks (blockstore_processor.rs): startup replay of the      *)
(* block store from the root bank.  `call` holds the block store's tree    *)
(* (the parent of every slot), the slots whose replay fails, and the       *)
(* function's locals; root is `*root`, blockstore_roots the slots marked   *)
(* as roots in the block store.  One step is one turn of the while loop.   *)
(***************************************************************************)
\* The slot and its ancestors in the block store's tree: the keys of
\* bank.ancestors, which hold the bank's own slot.
RECURSIVE AncestorsOrSelf(_, _)
AncestorsOrSelf(parent, slot) ==
  IF slot = 0 THEN {0} ELSE {slot} \cup AncestorsOrSelf(parent, parent[slot])

\* A set of slots as a vector sorted from the greatest slot to the smallest.
RECURSIVE SortedBySlotReversed(_)
SortedBySlotReversed(S) ==
  IF S = {} THEN <<>>
  ELSE LET s == MaxSlotOf(S) IN <<s>> \o SortedBySlotReversed(S \ {s})

SeqRange(q) == {q[i] : i \in 1..Len(q)}

RetainEverything(kept, parent, root_) == kept

\* `retain(|bank| bank.ancestors.contains_key(root))` on a set of banks.
RetainDescendants(kept, parent, root_) ==
  {s \in kept : root_ \in AncestorsOrSelf(parent, s)}

\* process_next_slots for the bank of `slot`: the bank takes its parent's
\* place among the fork tips and its children are pushed onto the pending
\* slots, which are then sorted from the greatest slot to the smallest.
process_next_slots(st, slot) ==
  LET next_slots == {c \in DOMAIN st.parent : st.parent[c] = slot}
      tips == IF slot = 0 THEN st.initial_forks
              ELSE st.initial_forks \ {st.parent[slot]}
  IN [st EXCEPT !.initial_forks = tips \cup {slot},
                !.pending_slots =
                   SortedBySlotReversed(SeqRange(st.pending_slots) \cup next_slots)]

\* The chain of slots from new_root down to, not including, the root.
RootedSlots(parent, new_root, root_) ==
  {s \in AncestorsOrSelf(parent, new_root) : s > root_}

\* The rooted slots of a block store: a slot with its ancestors.
BlockstoreRootChains(parent) == {AncestorsOrSelf(parent, r) : r \in Slots}

\* load_frozen_forks after its first call of process_next_slots, on a root
\* bank at slot 0: any tree of full slots, any of which may fail to replay,
\* and any chain of slots marked as roots.
InitLoadFrozenForks ==
  /\ pc = "load_frozen_forks"
  /\ InitLoop
  /\ InitLeader(FALSE)
  /\ InitVoteChannel
  /\ banks = GenesisBanks
  /\ root = 0
  /\ progress = initialize_progress_and_fork_choice(GenesisBanks, 0).progress
  /\ fork_choice = initialize_progress_and_fork_choice(GenesisBanks, 0).fork_choice
  /\ duplicate_slots_tracker = {}
  /\ gossip_duplicate_confirmed_slots = <<>>
  /\ unfrozen_gossip_verified_vote_hashes = {}
  /\ dead_slots = {}
  /\ blockstore_slots = Slots
  /\ leader_schedule_root = 0
  /\ selected = NoSelection
  /\ tower = EmptyTower
  /\ saved_tower = EmptyTower
  /\ replay_results = <<>>
  /\ trace = <<>>
  /\ pe = NoEntries
  /\ exec_log = <<>>
  /\ \E tree \in FrozenTrees, failing \in SUBSET (1..MaxSlot) :
       LET parent == [s \in 1..MaxSlot |-> tree[s].parent]
       IN /\ blockstore_roots \in BlockstoreRootChains(parent)
          /\ call = process_next_slots(
                      [fn |-> "load_frozen_forks", parent |-> parent,
                       failing |-> failing, pending_slots |-> <<>>,
                       initial_forks |-> {}, all_banks |-> {},
                       max_root |-> MaxSlotOf(blockstore_roots),
                       filtered |-> {}],
                      0)

\* What load_frozen_forks leaves alone.
load_frozen_forks_rest ==
  <<pc, banks, progress, fork_choice, duplicate_slots_tracker, dead_slots,
    blockstore_slots, selected, tower, saved_tower, replay_results, trace, pe,
    exec_log, gossip_duplicate_confirmed_slots,
    unfrozen_gossip_verified_vote_hashes, exit, last_reset, partition_exists,
    gossip_verified_vote_hash_receiver, latest_validator_votes_for_frozen_banks,
    duplicate_slots_receiver>>

\* The supermajority roots a bank may report: none, or a slot below it on
\* its fork (the roots in the vote accounts of a bank are ancestors of it).
ClusterRootsSeenBy(parent, slot) == {NoSlot} \cup (AncestorsOrSelf(parent, slot) \ {slot})

\* One turn of `while !pending_slots.is_empty()`: the bank of a slot whose
\* replay fails is passed over.
load_frozen_forks_slot_fails ==
  /\ call.fn = "load_frozen_forks"
  /\ call.pending_slots # <<>>
  /\ LET slot == call.pending_slots[Len(call.pending_slots)]
     IN /\ slot \in call.failing
        /\ call' = [call EXCEPT !.pending_slots = SubSeq(@, 1, Len(@) - 1)]
  /\ UNCHANGED <<root, blockstore_roots, leader_schedule_root>>
  /\ UNCHANGED load_frozen_forks_rest
  /\ UNCHANGED leader_vars

\* One turn of the loop for a bank that replays and is frozen: it joins
\* all_banks; a new root, if any, is set and the banks that do not descend
\* from it are filtered out; the children of the bank become pending.
load_frozen_forks_slot_replayed ==
  /\ call.fn = "load_frozen_forks"
  /\ call.pending_slots # <<>>
  /\ LET slot == call.pending_slots[Len(call.pending_slots)]
         popped == [call EXCEPT !.pending_slots = SubSeq(@, 1, Len(@) - 1),
                                !.all_banks = @ \cup {slot}]
     IN /\ slot \notin call.failing
        /\ \E supermajority \in ClusterRootsSeenBy(call.parent, slot) :
             LET cluster_root == root >= call.max_root /\ supermajority # NoSlot
                                   /\ supermajority > root
                 new_root_bank ==
                   IF root >= call.max_root
                   THEN (IF cluster_root THEN supermajority ELSE NoSlot)
                   ELSE IF slot \in blockstore_roots THEN slot ELSE NoSlot
                 retained ==
                   IF new_root_bank = NoSlot THEN popped
                   ELSE [popped EXCEPT
                           !.pending_slots =
                              SelectSeq(@, LAMBDA s :
                                s \in RetainDescendants({s}, call.parent, new_root_bank)),
                           !.initial_forks =
                              RetainDescendants(@, call.parent, new_root_bank),
                           !.all_banks =
                              RetainDescendants(@, call.parent, new_root_bank),
                           !.filtered =
                              @ \cup ((SeqRange(popped.pending_slots)
                                         \cup popped.initial_forks \cup popped.all_banks)
                                      \ RetainDescendants(Slots, call.parent, new_root_bank))]
             IN /\ root' = IF new_root_bank = NoSlot THEN root ELSE new_root_bank
                /\ leader_schedule_root' =
                     IF new_root_bank = NoSlot THEN leader_schedule_root
                     ELSE new_root_bank
                /\ blockstore_roots' =
                     IF cluster_root
                     THEN blockstore_roots \cup RootedSlots(call.parent, supermajority, root)
                     ELSE blockstore_roots
                /\ call' = process_next_slots(retained, slot)
  /\ UNCHANGED load_frozen_forks_rest
  /\ UNCHANGED leader_vars

NextLoadFrozenForks ==
  \/ load_frozen_forks_slot_fails
  \/ load_frozen_forks_slot_replayed

SpecLoadFrozenForks == InitLoadFrozenForks /\ [][NextLoadFrozenForks]_vars

\* The banks load_frozen_forks holds: pending, fork tips and all_banks.
HeldBanks(st) == SeqRange(st.pending_slots) \cup st.initial_forks \cup st.all_banks

\* C40: a step of load_frozen_forks that changes the root sets it to a
\* higher slot that descends from the root it replaces, and every bank held
\* after the step, pending or retained, has the new root among its ancestors
\* or is the new root's own bank; so has every bank held at any time.
C40_RootAdvancesToDescendants ==
  /\ [](call.fn = "load_frozen_forks" =>
          \A s \in HeldBanks(call) : root \in AncestorsOrSelf(call.parent, s))
  /\ [][(call.fn = "load_frozen_forks" /\ root' # root) =>
          /\ root' > root
          /\ root \in AncestorsOrSelf(call.parent, root')
          /\ \A s \in HeldBanks(call') : root' \in AncestorsOrSelf(call.parent, s)
          /\ root' \in call'.all_banks
          /\ leader_schedule_root' = root'
          /\ root' \in blockstore_roots']_vars

\* The root has moved past the block store's last root to a root found in
\* the vote accounts, and a bank on another fork was filtered out.
C40_Witness ==
  /\ call.fn = "load_frozen_forks"
  /\ root > call.max_root
  /\ call.filtered # {}
  /\ call.all_banks # {}

\* The signals of the messages of a channel, in the order they are taken.
RECURSIVE FlatSignals(_)
FlatSignals(receiver) ==
  IF receiver = <<>> THEN <<>> ELSE Head(receiver) \o FlatSignals(Tail(receiver))

\* The position of the first signal above the root whose slot is recorded
\* already, before the call or by an earlier signal; one past the end if
\* there is none.
FirstRepeat(signals, before, root_) ==
  LET repeats == {j \in 1..Len(signals) :
                    /\ signals[j].slot > root_
                    /\ \/ signals[j].slot \in DOMAIN before
                       \/ \E i \in 1..(j - 1) : signals[i].slot = signals[j].slot}
  IN IF repeats = {} THEN Len(signals) + 1
     ELSE CHOOSE j \in repeats : \A k \in repeats : j <= k

\* The calls of check_slot_agrees_with_cluster for the signals above the
\* root among the first n.
RECURSIVE ChecksFor(_, _, _, _)
ChecksFor(signals, n, root_, banks_) ==
  IF n = 0 THEN <<>>
  ELSE IF signals[n].slot > root_
  THEN Append(ChecksFor(signals, n - 1, root_, banks_),
              <<signals[n].slot, bank_hash_of(banks_, signals[n].slot),
                "DuplicateConfirmed">>)
  ELSE ChecksFor(signals, n - 1, root_, banks_)

GossipCallDone ==
  call.fn = "process_gossip_duplicate_confirmed_slots" /\ call.done

C29_RepeatDoesNotStopOthers ==
  (/\ GossipCallDone
   /\ \A i, j \in 1..Len(FlatSignals(call.sent)) :
        FlatSignals(call.sent)[i].slot = FlatSignals(call.sent)[j].slot
          => FlatSignals(call.sent)[i].hash = FlatSignals(call.sent)[j].hash
   /\ \A i \in 1..Len(FlatSignals(call.sent)) :
        FlatSignals(call.sent)[i].slot \in DOMAIN call.before
          => call.before[FlatSignals(call.sent)[i].slot] = FlatSignals(call.sent)[i].hash)
    => \A i \in 1..Len(FlatSignals(call.sent)) :
         LET signal == FlatSignals(call.sent)[i]
         IN signal.slot > root
              => /\ signal.slot \in DOMAIN gossip_duplicate_confirmed_slots
                 /\ gossip_duplicate_confirmed_slots[signal.slot] = signal.hash
                 /\ \/ signal.slot \in DOMAIN call.before
                    \/ \E k \in 1..Len(call.checked) : call.checked[k][1] = signal.slot

\* C31: every vote the vote listener has sent is still in the channel, parked
\* or given to the latest votes (the root does not move in these runs, so
\* nothing is pruned).
C31_NoGossipVoteDiscarded ==
  call.fn = "gossip_votes"
    => \A vote \in call.sent :
         \/ \E i \in 1..Len(gossip_verified_vote_hash_receiver) :
              gossip_verified_vote_hash_receiver[i] = vote
         \/ <<vote.slot, vote.hash, vote.pubkey>> \in unfrozen_gossip_verified_vote_hashes
         \/ <<vote.pubkey, vote.slot, vote.hash>> \in latest_validator_votes_for_frozen_banks

\* C33: a slot marked dead stays marked while its entry is in the progress
\* map, is not among the banks a later call of replay_active_banks replays,
\* is never frozen and never gets a node in fork choice.
C33_DeadSlotNeverReplayedAgain ==
  /\ [](\A s \in DOMAIN progress :
          progress[s].is_dead =>
            /\ s \in dead_slots
            /\ s \in DOMAIN banks => ~banks[s].frozen
            /\ \A key \in fork_choice.nodes : key[1] # s)
  /\ [][\A s \in DOMAIN progress :
          progress[s].is_dead =>
            /\ s \in DOMAIN progress' => progress'[s].is_dead
            /\ s \in DOMAIN banks' => ~banks'[s].frozen
            /\ (pc = "replay" /\ pc' = "duplicates") => s \notin DOMAIN replay_results'
            /\ \A key \in fork_choice'.nodes : key[1] # s]_vars
  /\ [][\A s \in dead_slots : s \in DOMAIN banks' => ~banks'[s].frozen]_vars

\* replay_active_banks has just replayed a bank while another bank, marked
\* dead by an earlier call, was left out.
C33_Witness ==
  /\ pc = "duplicates"
  /\ replay_results # <<>>
  /\ \E s \in DOMAIN progress :
       /\ progress[s].is_dead
       /\ s \in active_banks(banks)
       /\ s \notin DOMAIN replay_results

\* The ticks registered so far, in the order of their registration.
RECURSIVE RegisteredTicks(_)
RegisteredTicks(log) ==
  IF log = <<>> THEN <<>>
  ELSE IF Head(log).kind = "register_tick"
  THEN <<Head(log).entry>> \o RegisteredTicks(Tail(log))
  ELSE RegisteredTicks(Tail(log))

\* The tick entries among the first n entries, in file order.
RECURSIVE TickEntries(_, _)
TickEntries(entries, n) ==
  IF n = 0 THEN <<>>
  ELSE IF entries[n].tick THEN Append(TickEntries(entries, n - 1), n)
  ELSE TickEntries(entries, n - 1)

\* C34: between entries no queued tick would bring the tick height to a
\* block boundary (the tick that would is registered at once); a step that
\* registers ticks registers all the queued ticks, in the order queued,
\* after every transaction of every batch in the buffer has finished, and
\* leaves the buffer empty; it is taken at a boundary tick or at the end of
\* the entries; and a call that succeeds has registered every tick of the
\* file, in file order, after every transaction of the file has finished.
C34_BatchesExecutedBeforeTicks ==
  /\ [](pe.pc = "next" =>
          \A k \in 1..Len(pe.tick_hashes) : ~is_block_boundary(pe.tick_height + k))
  /\ [](pe.pc # "idle" =>
          \E n \in 0..Len(pe.entries) :
            RegisteredTicks(exec_log) = TickEntries(pe.entries, n))
  /\ [](pe.pc = "done" =>
          /\ RegisteredTicks(exec_log) = TickEntries(pe.entries, Len(pe.entries))
          /\ \A e \in 1..Len(pe.entries) : EntryFinishedBy(e, Len(exec_log)))
  /\ [][RegisteredTicks(exec_log') # RegisteredTicks(exec_log) =>
          /\ pe.pc = "executing"
          /\ pe.then \in {"tick", "end"}
          /\ pe.then = "tick" =>
               is_block_boundary(pe.tick_height + Len(pe.tick_hashes))
          /\ pe.then = "end" => pe.idx > Len(pe.entries)
          /\ \A b \in 1..Len(pe.batches) : EntryFinishedBy(pe.batches[b], Len(exec_log))
          /\ exec_log' = RegisterTicks(exec_log, pe.tick_hashes)
          /\ RegisteredTicks(exec_log') = RegisteredTicks(exec_log) \o pe.tick_hashes
          /\ pe'.batches = <<>>
          /\ pe'.tick_hashes = <<>>
          /\ pe'.tick_height = pe.tick_height + Len(pe.tick_hashes)]_vars

\* A tick was queued, a batch was buffered after it, and a boundary tick
\* then had the batch executed and both ticks registered in order; the call
\* went on to its end.
C34_Witness ==
  /\ pe.pc = "done"
  /\ \E p, q, r \in 1..Len(exec_log) :
       /\ p < q /\ q = r - 1
       /\ exec_log[p].kind = "end"
       /\ exec_log[q].kind = "register_tick"
       /\ exec_log[r].kind = "register_tick"
       /\ exec_log[q].entry < exec_log[p].entry
       /\ exec_log[p].entry < exec_log[r].entry

\* The entry locks an account twice.
SelfConflict(entry) ==
  \E i, j \in 1..Len(entry.txs) : i # j /\ entry.txs[i] \cap entry.txs[j] # {}

\* The call has ended on a lock error: no execute_batches failed.
LockError == pe.pc = "failed" /\ pe.failed_batches = {}

\* C35: a Transactions entry whose locks fail on an empty buffer ends the
\* call in that step, with nothing executed by the step; the call ends that
\* way only on an entry that conflicts with itself; then no transaction of
\* that entry or of a later one has begun, every transaction of every
\* earlier entry has finished and is still in the record of what was
\* executed, and nothing is executed or registered afterwards.
C35_SelfConflictStopsProcessing ==
  /\ [](LockError =>
          /\ pe.idx \in 1..Len(pe.entries)
          /\ ~pe.entries[pe.idx].tick
          /\ SelfConflict(pe.entries[pe.idx])
          /\ pe.batches = <<>>
          /\ \A q \in 1..Len(exec_log) : exec_log[q].entry < pe.idx
          /\ \A e \in 1..(pe.idx - 1) : EntryFinishedBy(e, Len(exec_log)))
  /\ [][(/\ pe.pc = "next"
         /\ pe.idx <= Len(pe.entries)
         /\ ~pe.entries[pe.idx].tick
         /\ pe.batches = <<>>
         /\ ~lock_ok(pe, pe.entries[pe.idx]))
          => /\ pe'.pc = "failed"
             /\ pe'.failed_batches = {}
             /\ exec_log' = exec_log]_vars
  /\ [][pe.pc = "failed" => pe' = pe /\ exec_log' = exec_log]_vars

\* An entry was executed, then an entry that conflicts with itself ended the
\* call, with an entry after it never begun.
C35_Witness ==
  /\ LockError
  /\ pe.idx = 2
  /\ Len(pe.entries) > 2
  /\ ~pe.entries[1].tick
  /\ EntryFinishedBy(1, Len(exec_log))

\* C36: execute_batches returns Ok exactly when every batch returned Ok, and
\* otherwise the error of the failing batch with the lowest index, in
\* whatever order the workers finished.
C36_FirstErrorInBatchOrder ==
  (call.fn = "execute_batches" /\ call.done) =>
    LET failing == {b \in 1..Len(call.returns) : call.returns[b] # "Ok"}
    IN /\ call.result = "Ok" <=> failing = {}
       /\ failing # {} =>
            call.result = call.returns[CHOOSE b \in failing : \A c \in failing : b <= c]

\* Two batches failed with different errors and the one with the higher
\* index finished first.
C36_Witness ==
  /\ call.fn = "execute_batches"
  /\ call.done
  /\ \E i, j \in 1..Len(call.finished) :
       /\ i < j
       /\ call.finished[i] > call.finished[j]
       /\ call.returns[call.finished[i]] # "Ok"
       /\ call.returns[call.finished[j]] # "Ok"
       /\ call.returns[call.finished[i]] # call.returns[call.finished[j]]

\* C37 as stated: when confirm_slot returns Ok the bank reports is_complete.
C37_ConfirmSlotOkMeansComplete ==
  (call.fn = "confirm_slot" /\ call.done /\ call.result = "Ok")
    => is_complete(call.bank_after)

\* C37 as the code has it: confirm_full_slot returns Ok only for a bank that
\* reports is_complete, and turns an Ok of confirm_slot on an incomplete bank
\* into Incomplete; confirm_slot itself returns Ok once the entries fetched
\* are replayed, and with the ticks verified the bank then reports
\* is_complete exactly when the slot was full.
C37_ConfirmFullSlotOkMeansComplete ==
  (call.fn = "confirm_slot" /\ call.done) =>
    /\ call.full_result = "Ok" => is_complete(call.bank_after)
    /\ call.full_result = "Ok" <=> (call.result = "Ok" /\ is_complete(call.bank_after))
    /\ (call.result = "Ok" /\ ~is_complete(call.bank_after))
         => call.full_result = "Incomplete"
    /\ (call.result = "Ok" /\ ~call.skip_verification)
         => (is_complete(call.bank_after) <=> call.fetched.slot_full)

\* confirm_slot returned Ok after replaying a tick of a slot that is not yet
\* full: the bank is not complete and confirm_full_slot reports Incomplete.
C37_Witness ==
  /\ call.fn = "confirm_slot"
  /\ call.done
  /\ call.result = "Ok"
  /\ ~call.skip_verification
  /\ tick_count(call.fetched.entries) > 0
  /\ ~is_complete(call.bank_after)
  /\ call.full_result = "Incomplete"

\* The cursor of a ConfirmationProgress.
Cursor(progress_) ==
  <<progress_.num_shreds, progress_.num_entries, progress_.num_txs, progress_.last_entry>>

\* C38: when confirm_slot returns an error, num_shreds, num_entries, num_txs
\* and last_entry are what they were before the call.
C38_ErrorLeavesCursor ==
  (call.fn = "confirm_slot" /\ call.done /\ call.result # "Ok")
    => Cursor(call.progress_after) = Cursor(call.progress)

\* confirm_slot fetched entries, verified their ticks, which moved
\* tick_hash_count, and failed in replaying them.
C38_Witness ==
  /\ call.fn = "confirm_slot"
  /\ call.done
  /\ call.result = "InvalidTransaction"
  /\ call.fetched.entries # <<>>
  /\ call.progress_after.tick_hash_count # call.progress.tick_hash_count
  /\ Cursor(call.progress_after) = Cursor(call.progress)

\* C39: verify_ticks returns TooManyTicks if the tick height after the
\* entries exceeds the bank's max tick height; else TooFewTicks if it is
\* below the max and the slot is full; else, when it equals the max,
\* TrailingEntry if the last entry is not a tick, else InvalidLastTick if the
\* slot is not full; else InvalidTickHashCount if the count of hashes per
\* tick fails; else Ok.
C39_VerifyTicksClassification ==
  (call.fn = "verify_ticks" /\ call.done) =>
    LET next == call.bank.tick_height + tick_count(call.entries)
        max == call.bank.max_tick_height
        last_is_tick == call.entries # <<>> => call.entries[Len(call.entries)].is_tick
        hashes_ok == verify_tick_hash_count(call.entries, call.tick_hash_count,
                                            call.bank.hashes_per_tick).ok
    IN call.result =
         CASE next > max -> "TooManyTicks"
           [] next < max /\ call.slot_full -> "TooFewTicks"
           [] next = max /\ ~last_is_tick -> "TrailingEntry"
           [] next = max /\ last_is_tick /\ ~call.slot_full -> "InvalidLastTick"
           [] OTHER -> IF hashes_ok THEN "Ok" ELSE "InvalidTickHashCount"

\* A batch that reaches the max tick height with a trailing entry in a slot
\* not marked full, and whose hashes per tick are wrong as well, is given
\* TrailingEntry.
C39_Witness ==
  /\ call.fn = "verify_ticks"
  /\ call.done
  /\ call.result = "TrailingEntry"
  /\ ~call.slot_full
  /\ call.bank.hashes_per_tick # 0
  /\ ~verify_tick_hash_count(call.entries, call.tick_hash_count,
                             call.bank.hashes_per_tick).ok

=============================================================================
